---- MODULE Spec2Model ----
(***************************************************************************)
(* A model of the bounded-concurrency query/index dispatch engine of       *)
(* go-whosonfirst-pgis (src/index/index.go): the connection budget         *)
(* (PgisClient.conns), the intersects orchestrator (IntersectsFeature,     *)
(* CountIntersects, FetchIntersectsAsync) and the operations that draw on   *)
(* the budget (GetById, IndexFeature, Prune), and the bulk pipelines        *)
(* (IndexMetaFile, IndexFileList, IndexDirectory) with the whosonfirst     *)
(* table they write.                                                       *)
(*                                                                         *)
(* Goroutines are processes with a program counter; an unbuffered channel  *)
(* is a rendezvous of a sender blocked at a "send_*" position with a       *)
(* receiver blocked at a receive or a select; a buffered channel of bool   *)
(* is the number of values it holds.                                       *)
(***************************************************************************)
EXTENDS Integers, Sequences, FiniteSets, TLC

\* ---------------------------------------------------------------- bounds
MaxConns == 3
MaxRows == 2
MaxPerPage == 2
MaxProcs == 2
NumWorkers == 1
MaxOps == 2
MaxPruneRows == 2
HostProcs == 1
BudgetRows == 1
BudgetOps == 1
MaxItems == 2
MaxIds == 2
MaxVals == 2
MaxClients == 2
MaxExecCalls == 2



\* ---------------------------------------------------------------- program constants
\* limit := 100000 in Prune
PruneLimit == 100000

\* ---------------------------------------------------------------- values
NIL == "nil"
Parts == {"geom", "centroid"}
Offsets == 0..MaxRows

\* The two results of IntersectsFeature: ([]*PgisRow, error). A nil slice and an
\* empty slice are different values in Go.
NoReturn == [returned |-> FALSE, rowsNil |-> TRUE, rows |-> <<>>, err |-> NIL]
Return(r, e) == [returned |-> TRUE, rowsNil |-> FALSE, rows |-> r, err |-> e]
ReturnErr(e) == [returned |-> TRUE, rowsNil |-> TRUE, rows |-> <<>>, err |-> e]

Workers == 1..NumWorkers
\* The goroutines the bulk pipelines start, one for each item of the stream.
Tasks == (NumWorkers + 1)..(NumWorkers + MaxItems)
Procs == Workers \cup Tasks
TaskOf(k) == NumWorkers + k
\* The ids of the whosonfirst table; IndexFeature never writes id 0.
Ids == 1..MaxIds
PruneRows == 0..(MaxPruneRows - 1)
\* The clients a PgisIndexer can have, by their place in idx.clients.
Clients == 1..MaxClients

\* The goroutines that call dbconn: the caller of IntersectsFeature, its two
\* get_count goroutines, the goroutines that call the client's other methods,
\* the goroutine that calls Prune and its row goroutines.
Caller == <<"caller", 0, 0>>
CountTask(p) == <<"count", IF p = "geom" THEN 1 ELSE 2, 0>>
Worker(w) == <<"worker", w, 0>>
Pruner == <<"prune", 0, 0>>
RowTask(r) == <<"row", r, 0>>
Holders ==
    {Caller} \cup {CountTask(p) : p \in Parts} \cup {Worker(w) : w \in Procs}
    \cup {Pruner} \cup {RowTask(r) : r \in PruneRows}

VARIABLES
    maxconns,    \* NewPgisClient's maxconns: the capacity of client.conns
    conns,       \* the number of permits in client.conns
    held,        \* permits taken through dbconn and not given back, per task
    hasGeom,     \* whether the feature passed to IntersectsFeature has a geometry
    N,           \* the store: the number of rows matching in each partition
    perPage,     \* opts.PerPage
    numProcs,    \* opts.NumProcesses
    callerPc,    \* the position of the goroutine that runs IntersectsFeature
    n,           \* the count loop's n
    count,       \* count_geom and count_centroid
    count_total,
    fetching,
    f,           \* the fetch loop's f
    rows,        \* the rows slice of IntersectsFeature
    ret,         \* what IntersectsFeature returned
    countPc,     \* the position of each get_count goroutine
    countVal,    \* what CountIntersects returned to it
    stage,       \* the partition FetchIntersectsAsync is running for, or NIL
    iters,
    offset,
    i,           \* the completion loop's i
    spawned,     \* page goroutines started by each call of FetchIntersectsAsync
    fetchCalls,  \* calls of FetchIntersectsAsync, per partition
    throttle,    \* values in throttle_ch, per stage
    pagePc,      \* the position of each page goroutine
    pageIdx,     \* the next row of its result set
    exited,      \* the process has ended: no goroutine runs any more
    exitBy,      \* how it ended: os.Exit or a panic, or NIL
    debug,       \* client.Debug
    geometry,    \* client.Geometry
    pool,        \* the features the callers of IndexFeature pass to it
    store,       \* the whosonfirst table: the record of each id, or NoRecord
    wPc,         \* the position of each goroutine calling the client's methods
    wOp,         \* the method it is in
    wItem,       \* the feature its IndexFeature was called with
    wRes,        \* what its last IndexFeature returned
    opsDone,     \* the calls it has finished
    calls,       \* the calls each of these goroutines makes
    bulkOp,      \* the bulk pipeline that is run
    stream,      \* its items: decoded files, and what cannot be read
    hasPath,     \* whether the meta file has a 'path' column
    bPc,         \* the position of the goroutine that runs the pipeline
    bNext,       \* the items it has read
    bCh,         \* values in the pipeline's ch
    bPre,        \* the pre-loading goroutine's i
    bWg,         \* the pipeline's WaitGroup counter
    bRet,        \* what the pipeline returned
    bStats,      \* IndexDirectory's count, ok and errs
    bPath,       \* the item whose path each goroutine of the pipeline was given
    prPc,        \* the position of the goroutine that runs Prune
    prDelete,    \* Prune's delete
    prCount,     \* Prune's count_rows
    prOffset,    \* Prune's offset
    prRow,       \* the next row of Prune's result set
    prThrottle,  \* values in Prune's throttle
    prWg,        \* Prune's WaitGroup counter
    rowPc,       \* the position of each row goroutine of Prune
    idxClients,  \* len(idx.clients) of the PgisIndexer
    cConns,      \* the number of permits in each of these clients' conns
    cOther,      \* permits of each client that other goroutines hold
    execPc,      \* the position of the goroutine that calls PgisIndexer.Exec
    execCalls,   \* the calls of Exec it has made
    execI,       \* the clients Exec's loop has started a goroutine for
    pending,     \* Exec's pending
    execRet,     \* what Exec returned
    taskPc,      \* the position of the goroutine Exec started for each client
    taskHeld,    \* permits each of them has taken and not given back
    taskRan      \* whether its db.Exec has returned without error

vars == <<maxconns, conns, held, hasGeom, N, perPage, numProcs, callerPc, n,
          count, count_total, fetching, f, rows, ret, countPc, countVal, stage,
          iters, offset, i, spawned, fetchCalls, throttle, pagePc, pageIdx,
          exited, exitBy, debug, geometry, pool, store, wPc, wOp, wItem,
          wRes, opsDone, calls, bulkOp, stream, hasPath, bPc, bNext, bCh, bPre, bWg,
          bRet, bStats, bPath, prPc, prDelete, prCount, prOffset, prRow,
          prThrottle, prWg, rowPc, idxClients, cConns, cOther, execPc, execCalls,
          execI, pending, execRet, taskPc, taskHeld, taskRan>>

configVars == <<maxconns, exited, exitBy, debug, geometry, pool>>
budgetVars == <<conns, held, configVars>>
pruneVars == <<prPc, prDelete, prCount, prOffset, prRow, prThrottle, prWg, rowPc>>
procVars == <<wPc, wOp, wItem, wRes, opsDone>>
bulkVars == <<bulkOp, stream, hasPath, bPc, bNext, bCh, bPre, bWg, bRet, bStats, bPath>>
workerVars == <<procVars, store, bulkVars, pruneVars>>
inputVars == <<hasGeom, N, perPage, numProcs, calls>>
callerVars == <<callerPc, n, count, count_total, fetching, f, rows, ret>>
countVars == <<countPc, countVal>>
stageVars == <<stage, iters, offset, i, spawned, fetchCalls, throttle>>
pageVars == <<pagePc, pageIdx>>
execVars == <<idxClients, cConns, cOther, execPc, execCalls, execI, pending, execRet,
              taskPc, taskHeld, taskRan>>

\* ---------------------------------------------------------------- budget
\* dbconn changed to hand out the connection without waiting for a permit when
\* client.conns is empty.
dbconn_nowait(t) ==
    /\ conns' = IF conns > 0 THEN conns - 1 ELSE conns
    /\ held' = [held EXCEPT ![t] = @ + 1]
    /\ UNCHANGED configVars

\* <-client.conns
dbconn(t) ==
    /\ conns > 0
    /\ conns' = conns - 1
    /\ held' = [held EXCEPT ![t] = @ + 1]
    /\ UNCHANGED configVars

\* client.conns <- true
release(t) ==
    /\ conns < maxconns
    /\ conns' = conns + 1
    /\ held' = [held EXCEPT ![t] = @ - 1]
    /\ UNCHANGED configVars

RECURSIVE SumHeld(_)
SumHeld(S) ==
    IF S = {} THEN 0
    ELSE LET t == CHOOSE x \in S : TRUE IN held[t] + SumHeld(S \ {t})

\* permits taken and not given back
Outstanding == SumHeld(Holders)

\* ---------------------------------------------------------------- IndexFeature
\* What IndexFeature reads of a feature: its id, geometry.type, whether the
\* lbl: and geom: coordinate pairs are float64, whether it has a bbox, whether
\* the placetype is known, wof:repo, and whether the geometry can be hashed;
\* props is what goes into the statement's arguments $2..$8 for a feature that
\* gets that far (parent, pt.Id, is_superseded, is_deprecated, str_meta,
\* geom_hash, and lastmod, the time of the call).
Features ==
    [id : 0..MaxIds, props : 1..MaxVals,
     geom_type : {"MultiPolygon", "Polygon", "Point", "LineString"},
     lbl : BOOLEAN, geomll : BOOLEAN, bbox : BOOLEAN, placetype_ok : BOOLEAN,
     repo : {"absent", "empty", "ok"}, hash_ok : BOOLEAN]

\* client.Geometry: the default, the two overrides, and any other string
GeometryModes == {"", "bbox", "centroid", "other"}

\* str_geom after the dispatch on client.Geometry and geometry.type: the
\* MultiPolygon as it is, the Polygon re-built as a MultiPolygon, the bbox ring,
\* or empty.
StrGeom(ft, mode) ==
    IF mode = "" /\ ft.geom_type \in {"MultiPolygon", "Polygon"} THEN ft.geom_type
    ELSE IF mode = "bbox" THEN "bbox"
    ELSE ""

\* The shape test changed to take every shape other than Point as a polygon.
ShapeError_lax(ft, mode) ==
    mode \notin {"", "bbox", "centroid"}

\* return errors.New("DO SOMETHING HERE"), return errors.New("unknown geometry filter")
ShapeError(ft, mode) ==
    \/ mode = "" /\ ft.geom_type \notin {"MultiPolygon", "Polygon", "Point"}
    \/ mode \notin {"", "bbox", "centroid"}

\* The centroid changed to fall back on a default point when neither pair of
\* coordinates is there.
StrCentroid_default(ft, mode) ==
    IF mode = "" /\ ft.geom_type = "Point" THEN "Point"
    ELSE IF ft.lbl THEN "lbl"
    ELSE "geom"

\* str_centroid: the Point geometry itself, or the Point built from the lbl:
\* pair, or from the geom: pair when the lbl: pair is not there; empty when
\* neither pair is (return errors.New("can't find centroid")).
StrCentroid(ft, mode) ==
    IF mode = "" /\ ft.geom_type = "Point" THEN "Point"
    ELSE IF ft.lbl THEN "lbl"
    ELSE IF ft.geomll THEN "geom"
    ELSE ""

\* The preparation changed to test for id 0 last, after the checks of the
\* geometry and of the other fields.
IndexPrepare_idlast(ft, mode) ==
    LET failed(st) == [status |-> st, geom |-> "", centroid |-> ""]
    IN  IF ShapeError(ft, mode) THEN failed("error")
        ELSE IF mode = "bbox" /\ ~ft.bbox THEN failed("panic")
        ELSE IF StrCentroid(ft, mode) = "" THEN failed("error")
        ELSE IF ~ft.placetype_ok \/ ft.repo # "ok" \/ ~ft.hash_ok THEN failed("error")
        ELSE IF ft.id = 0 THEN failed("skip")
        ELSE [status |-> "ok", geom |-> StrGeom(ft, mode),
              centroid |-> StrCentroid(ft, mode)]

\* The preparation changed to go on to the write without the test for an empty
\* str_centroid.
IndexPrepare_nocentroidtest(ft, mode) ==
    LET failed(st) == [status |-> st, geom |-> "", centroid |-> ""]
    IN  IF ft.id = 0 THEN failed("skip")
        ELSE IF ShapeError(ft, mode) THEN failed("error")
        ELSE IF mode = "bbox" /\ ~ft.bbox THEN failed("panic")
        ELSE IF ~ft.placetype_ok \/ ft.repo # "ok" \/ ~ft.hash_ok THEN failed("error")
        ELSE [status |-> "ok", geom |-> StrGeom(ft, mode),
              centroid |-> StrCentroid(ft, mode)]

\* IndexFeature up to `if !client.Debug`: "skip" is the return nil for id 0,
\* "panic" the index out of range of children[0] on a feature without bbox,
\* "error" a return of an error, "ok" reaching the write with str_geom and
\* str_centroid.
IndexPrepare(ft, mode) ==
    LET failed(st) == [status |-> st, geom |-> "", centroid |-> ""]
    IN  IF ft.id = 0 THEN failed("skip")
        ELSE IF ShapeError(ft, mode) THEN failed("error")
        ELSE IF mode = "bbox" /\ ~ft.bbox THEN failed("panic")
        ELSE IF StrCentroid(ft, mode) = "" THEN failed("error")
        ELSE IF ~ft.placetype_ok \/ ft.repo # "ok" \/ ~ft.hash_ok THEN failed("error")
        ELSE [status |-> "ok", geom |-> StrGeom(ft, mode),
              centroid |-> StrCentroid(ft, mode)]

\* The outcomes of IndexFeature's preparation over all features.
IndexStatuses == {IndexPrepare(ft, "").status : ft \in Features}

\* A row of the whosonfirst table. props stands for the seven columns every
\* statement sets from the same argument list (parent_id, placetype_id,
\* is_superseded, is_deprecated, meta, geom_hash, lastmod).
NoRecord == [present |-> FALSE, props |-> 0, geom |-> "", centroid |-> ""]

\* The three INSERT statements, and the empty sql of "this should never happend"
Statement(g, c) ==
    IF g # "" /\ c # "" THEN "both"
    ELSE IF g # "" THEN "geom_only"
    ELSE IF c # "" THEN "centroid_only"
    ELSE "none"

\* The statement the store can execute: the geom-only INSERT names a column
\* xgeom and ten columns for nine values, and the empty sql is no statement.
Executable(shape) == shape \in {"both", "centroid_only"}

\* ON CONFLICT(id) DO UPDATE SET ..., geom=%s is in the statement for both only
SetsGeom(shape) == shape = "both"

\* INSERT ... ON CONFLICT(id) DO UPDATE SET ...: the row of id after the
\* statement for g and c with the arguments v
Upsert(st, id, v, g, c) ==
    [st EXCEPT ![id] =
        [present |-> TRUE,
         props |-> v,
         geom |-> IF SetsGeom(Statement(g, c)) THEN g ELSE st[id].geom,
         centroid |-> c]]

\* The feature of id 0, and that no IndexFeature is at its write
Earth ==
    [id |-> 0, props |-> 1, geom_type |-> "Polygon", lbl |-> TRUE, geomll |-> TRUE,
     bbox |-> TRUE, placetype_ok |-> TRUE, repo |-> "ok", hash_ok |-> TRUE]
NoItem == Earth

\* A feature of the given id and geometry.type with every property in place,
\* and one that lacks only the bbox.
Place(id, type) == [Earth EXCEPT !.id = id, !.geom_type = type]
NoBbox(id, type) == [Place(id, type) EXCEPT !.bbox = FALSE]

\* The features that differ only in what IndexFeature writes of them.
Writable ==
    {ft \in Features : ft.id # 0 /\ ft.bbox /\ ft.placetype_ok /\ ft.repo = "ok" /\ ft.hash_ok}

\* ---------------------------------------------------------------- Init
NewPgisClient ==
    /\ maxconns \in 1..MaxConns
    /\ conns = maxconns
    /\ held = [t \in Holders |-> 0]
    /\ exited = FALSE
    /\ exitBy = NIL

\* The locals of IntersectsFeature and of the goroutines it starts, before
\* the call.
InitCallLocals ==
    /\ ~exited
    /\ callerPc = "start"
    /\ n = 0
    /\ count = [p \in Parts |-> 0]
    /\ count_total = 0
    /\ fetching = 0
    /\ f = 0
    /\ rows = <<>>
    /\ ret = NoReturn
    /\ countPc = [p \in Parts |-> "idle"]
    /\ countVal = [p \in Parts |-> 0]
    /\ stage = NIL
    /\ iters = 0
    /\ offset = 0
    /\ i = 0
    /\ spawned = [p \in Parts |-> 0]
    /\ fetchCalls = [p \in Parts |-> 0]
    /\ throttle = [p \in Parts |-> 0]
    /\ pagePc = [p \in Parts |-> [o \in Offsets |-> "none"]]
    /\ pageIdx = [p \in Parts |-> [o \in Offsets |-> 0]]

\* A call with options as NewDefaultPgisIntersectsOptions makes them: PerPage
\* and NumProcesses are positive.
InitCall ==
    /\ hasGeom \in BOOLEAN
    /\ N \in [Parts -> 0..MaxRows]
    /\ perPage \in 1..MaxPerPage
    /\ numProcs \in 1..MaxProcs
    /\ InitCallLocals

\* IntersectsFeature is not called: what its call would be given is of no
\* account.
NoCall ==
    /\ hasGeom = FALSE
    /\ N = [p \in Parts |-> 0]
    /\ perPage = 1
    /\ numProcs = 1

InitWorkers ==
    /\ wPc = [w \in Procs |-> IF w \in Workers THEN "idle" ELSE "none"]
    /\ wOp = [w \in Procs |-> NIL]
    /\ wItem = [w \in Procs |-> NoItem]
    /\ wRes = [w \in Procs |-> "none"]
    /\ opsDone = [w \in Procs |-> 0]
    /\ store = [id \in Ids |-> NoRecord]
    /\ prPc = "idle"
    /\ prDelete = FALSE
    /\ prCount = 0
    /\ prOffset = 0
    /\ prRow = 0
    /\ prThrottle = 0
    /\ prWg = 0
    /\ rowPc = [r \in PruneRows |-> "none"]

\* No bulk pipeline is run.
NoStream ==
    /\ stream = <<>>
    /\ hasPath = TRUE

InitBulk ==
    /\ bulkOp = NIL
    /\ bPc = "idle"
    /\ bNext = 0
    /\ bCh = 0
    /\ bPre = 0
    /\ bWg = 0
    /\ bRet = "none"
    /\ bStats = [count |-> 0, ok |-> 0, errs |-> 0]
    /\ bPath = [k \in 1..MaxItems |-> 0]

\* PgisIndexer.Exec is not called, on an indexer whose clients, made with
\* maxconns each, have all their permits.
InitExec ==
    /\ cConns = [c \in Clients |-> maxconns]
    /\ cOther = [c \in Clients |-> 0]
    /\ execPc = "idle"
    /\ execCalls = 0
    /\ execI = 0
    /\ pending = 0
    /\ execRet = "none"
    /\ taskPc = [c \in Clients |-> "none"]
    /\ taskHeld = [c \in Clients |-> 0]
    /\ taskRan = [c \in Clients |-> FALSE]

\* There is no PgisIndexer.
NoExec ==
    /\ idxClients = 0
    /\ InitExec

\* One call of IntersectsFeature on a fresh client.
Init ==
    /\ NewPgisClient
    /\ debug = FALSE
    /\ geometry = ""
    /\ pool = {}
    /\ calls = [w \in Workers |-> MaxOps]
    /\ InitCall
    /\ InitWorkers
    /\ InitBulk
    /\ NoExec
    /\ NoStream

\* ---------------------------------------------------------------- channels
\* Goroutines blocked in a send on err_ch, and the error each one sends.
ErrSenders ==
    {<<"count", p, 0>> : p \in {q \in Parts : countPc[q] = "send_err"}}
    \cup {<<"page", q[1], q[2]>> :
              q \in {x \in Parts \X Offsets : pagePc[x[1]][x[2]] = "send_err"}}

CountErr(p) == IF p = "geom" THEN "count_err_geom" ELSE "count_err_centroid"
ErrOf(s) == IF s[1] = "count" THEN CountErr(s[2]) ELSE "fetch_err"

\* Goroutines blocked in a send on done_ch: a get_count in its deferred send,
\* or the caller itself in the deferred send of FetchIntersectsAsync.
DoneSenders ==
    {<<"count", p, 0>> : p \in {q \in Parts : countPc[q] = "send_done"}}
    \cup (IF callerPc = "fetch_defer" THEN {<<"caller", stage, 0>>} ELSE {})

\* Goroutines blocked in a receive on done_ch: only the two select loops of
\* IntersectsFeature receive on it.
DoneReceivers ==
    IF callerPc \in {"countloop", "fetchloop"} THEN {<<"caller", NIL, 0>>} ELSE {}

RowSenders ==
    {<<"page", q[1], q[2]>> :
        q \in {x \in Parts \X Offsets : pagePc[x[1]][x[2]] = "send_row"}}

\* The sender s goes on to the position pc once its send is taken.
CountPcAfter(s, pc) ==
    IF s[1] = "count" THEN [countPc EXCEPT ![s[2]] = pc] ELSE countPc
PagePcAfter(s, pc) ==
    IF s[1] = "page" THEN [pagePc EXCEPT ![s[2]][s[3]] = pc] ELSE pagePc

\* ---------------------------------------------------------------- pure parts
\* iters := int(math.Ceil(float64(count_expected) / float64(limit)))
PageCount(cnt, limit) == (cnt + limit - 1) \div limit

\* int(math.Ceil(count_fl / limit_fl)) with limit 0 and a count above 0 is
\* int(+Inf): the conversion of a float64 that does not fit the int is
\* implementation-dependent in Go (the lowest int on amd64, the highest on
\* arm64). The two values here stand for them: below and above every count.
ItersOfInf == {-(MaxRows + 2), MaxRows + 2}

\* iters, for every limit
Iters(cnt, limit) == IF limit = 0 THEN ItersOfInf ELSE {PageCount(cnt, limit)}

\* for offset := 0; offset <= count_expected; offset += limit
SpawnMore(off, cnt) == off <= cnt

\* With limit 0 the spawning loop has no end; its goroutines are followed up to
\* this many.
MaxSpawn == MaxRows + 1

\* The partition test changed to skip a partition of one row, and changed to
\* fetch an empty partition.
FetchWanted_gt1(c) == c > 1
FetchWanted_ge0(c) == c >= 0

\* if count_geom > 0, if count_centroid > 0
FetchWanted(c) == c > 0

\* The rows a paged query returns: OFFSET off LIMIT limit of total matching rows.
PageEnd(off, limit, total) == IF off + limit < total THEN off + limit ELSE total

\* ---------------------------------------------------------------- IntersectsFeature
\* The count loop changed to wait for one done_ch signal only (n := 1).
Start_onedone ==
    /\ ~exited
    /\ callerPc = "start"
    /\ IF ~hasGeom
       THEN /\ ret' = ReturnErr("missing_geometry")
            /\ callerPc' = "Failed"
            /\ UNCHANGED <<n, countPc>>
       ELSE /\ countPc' = [p \in Parts |-> "dbconn"]
            /\ n' = 1
            /\ callerPc' = "countloop"
            /\ UNCHANGED ret
    /\ UNCHANGED <<budgetVars, inputVars, execVars, workerVars, count, count_total, fetching, f, rows,
                   countVal, stageVars, pageVars>>

\* IntersectsFeature up to the count loop: the test for a geometry, then
\* go get_count(...) twice and n := 2
Start ==
    /\ ~exited
    /\ callerPc = "start"
    /\ IF ~hasGeom
       THEN /\ ret' = ReturnErr("missing_geometry")
            /\ callerPc' = "Failed"
            /\ UNCHANGED <<n, countPc>>
       ELSE /\ countPc' = [p \in Parts |-> "dbconn"]
            /\ n' = 2
            /\ callerPc' = "countloop"
            /\ UNCHANGED ret
    /\ UNCHANGED <<budgetVars, inputVars, execVars, workerVars, count, count_total, fetching, f, rows,
                   countVal, stageVars, pageVars>>

\* get_count: client.CountIntersects, its dbconn
CountDbconn(p) ==
    /\ ~exited
    /\ countPc[p] = "dbconn"
    /\ dbconn(CountTask(p))
    /\ countPc' = [countPc EXCEPT ![p] = "query"]
    /\ UNCHANGED <<inputVars, execVars, workerVars, callerVars, countVal, stageVars, pageVars>>

\* CountIntersects: QueryRow and Scan succeed; it returns with the permit
CountQueryOk(p) ==
    /\ ~exited
    /\ countPc[p] = "query"
    /\ countVal' = [countVal EXCEPT ![p] = N[p]]
    /\ countPc' = [countPc EXCEPT ![p] = "send_count"]
    /\ UNCHANGED <<budgetVars, inputVars, execVars, workerVars, callerVars, stageVars, pageVars>>

\* CountIntersects: Scan fails; it returns -1, err with the permit
CountQueryErr(p) ==
    /\ ~exited
    /\ countPc[p] = "query"
    /\ countVal' = [countVal EXCEPT ![p] = -1]
    /\ countPc' = [countPc EXCEPT ![p] = "send_err"]
    /\ UNCHANGED <<budgetVars, inputVars, execVars, workerVars, callerVars, stageVars, pageVars>>

\* the count loop: case c := <-geom_ch, case c := <-centroid_ch
CountLoopRecvCount(p) ==
    /\ ~exited
    /\ callerPc = "countloop"
    /\ n > 0
    /\ countPc[p] = "send_count"
    /\ count' = [count EXCEPT ![p] = countVal[p]]
    /\ count_total' = count_total + countVal[p]
    /\ countPc' = [countPc EXCEPT ![p] = "send_done"]
    /\ UNCHANGED <<budgetVars, inputVars, execVars, workerVars, callerPc, n, fetching, f, rows, ret,
                   countVal, stageVars, pageVars>>

\* The error case changed to drop the error and go on counting.
CountLoopRecvErr_dropped(s) ==
    /\ ~exited
    /\ callerPc = "countloop"
    /\ n > 0
    /\ s \in ErrSenders
    /\ countPc' = CountPcAfter(s, "send_done")
    /\ pagePc' = PagePcAfter(s, "sig")
    /\ UNCHANGED <<budgetVars, inputVars, execVars, workerVars, callerVars, countVal, stageVars,
                   pageIdx>>

\* the count loop: case err := <-err_ch: return nil, err
CountLoopRecvErr(s) ==
    /\ ~exited
    /\ callerPc = "countloop"
    /\ n > 0
    /\ s \in ErrSenders
    /\ ret' = ReturnErr(ErrOf(s))
    /\ callerPc' = "Failed"
    /\ countPc' = CountPcAfter(s, "send_done")
    /\ pagePc' = PagePcAfter(s, "sig")
    /\ UNCHANGED <<budgetVars, inputVars, execVars, workerVars, n, count, count_total, fetching, f, rows,
                   countVal, stageVars, pageIdx>>

\* The count loop changed to end at the first done_ch signal.
CountLoopRecvDone_first(s) ==
    /\ ~exited
    /\ callerPc = "countloop"
    /\ n > 0
    /\ s \in DoneSenders
    /\ n' = n - 1
    /\ callerPc' = "check_geom"
    /\ countPc' = CountPcAfter(s, "done")
    /\ UNCHANGED <<budgetVars, inputVars, execVars, workerVars, count, count_total, fetching, f, rows, ret,
                   countVal, stageVars, pageVars>>

\* the count loop: case <-done_ch: n--, and the loop's exit at n = 0
CountLoopRecvDone(s) ==
    /\ ~exited
    /\ callerPc = "countloop"
    /\ n > 0
    /\ s \in DoneSenders
    /\ n' = n - 1
    /\ callerPc' = IF n - 1 > 0 THEN "countloop" ELSE "check_geom"
    /\ countPc' = CountPcAfter(s, "done")
    /\ UNCHANGED <<budgetVars, inputVars, execVars, workerVars, count, count_total, fetching, f, rows, ret,
                   countVal, stageVars, pageVars>>

\* if count_geom > 0 { client.FetchIntersectsAsync(...) }
CheckGeom ==
    /\ ~exited
    /\ callerPc = "check_geom"
    /\ IF FetchWanted(count["geom"])
       THEN /\ stage' = "geom"
            /\ fetchCalls' = [fetchCalls EXCEPT !["geom"] = @ + 1]
            /\ callerPc' = "fetch_dbconn"
       ELSE /\ callerPc' = "check_centroid"
            /\ UNCHANGED <<stage, fetchCalls>>
    /\ UNCHANGED <<budgetVars, inputVars, execVars, workerVars, n, count, count_total, fetching, f, rows,
                   ret, countVars, iters, offset, i, spawned, throttle, pageVars>>

\* The centroid test changed to fetch the centroid partition whatever its count.
CheckCentroid_unchecked ==
    /\ ~exited
    /\ callerPc = "check_centroid"
    /\ stage' = "centroid"
    /\ fetchCalls' = [fetchCalls EXCEPT !["centroid"] = @ + 1]
    /\ callerPc' = "fetch_dbconn"
    /\ UNCHANGED <<budgetVars, inputVars, execVars, workerVars, n, count, count_total, fetching, f,
                   rows, ret, countVars, iters, offset, i, spawned, throttle, pageVars>>

\* if count_centroid > 0 { client.FetchIntersectsAsync(...) }, then f := fetching
CheckCentroid ==
    /\ ~exited
    /\ callerPc = "check_centroid"
    /\ IF FetchWanted(count["centroid"])
       THEN /\ stage' = "centroid"
            /\ fetchCalls' = [fetchCalls EXCEPT !["centroid"] = @ + 1]
            /\ callerPc' = "fetch_dbconn"
            /\ UNCHANGED f
       ELSE /\ callerPc' = "fetchloop"
            /\ f' = fetching
            /\ UNCHANGED <<stage, fetchCalls>>
    /\ UNCHANGED <<budgetVars, inputVars, execVars, workerVars, n, count, count_total, fetching, rows,
                   ret, countVars, iters, offset, i, spawned, throttle, pageVars>>

\* ---------------------------------------------------------------- FetchIntersectsAsync
\* It runs on the caller's goroutine: IntersectsFeature calls it without `go`.
\* dbconn, iters, and the pre-loaded throttle_ch
FetchDbconn ==
    /\ ~exited
    /\ callerPc = "fetch_dbconn"
    /\ dbconn(Caller)
    /\ iters' \in Iters(count[stage], perPage)
    /\ throttle' = [throttle EXCEPT ![stage] = numProcs]
    /\ offset' = 0
    /\ callerPc' = "fetch_spawn"
    /\ UNCHANGED <<inputVars, execVars, workerVars, n, count, count_total, fetching, f, rows, ret,
                   countVars, stage, i, spawned, fetchCalls, pageVars>>

\* one round of the spawning loop: go func(...)(str_geom, opts, offset, limit).
\* A page goroutine is known by its offset; with limit 0 every goroutine has
\* offset 0 and is known by its number, and its result set (LIMIT 0) is empty.
FetchSpawn ==
    /\ ~exited
    /\ callerPc = "fetch_spawn"
    /\ SpawnMore(offset, count[stage])
    /\ perPage = 0 => spawned[stage] < MaxSpawn
    /\ pagePc' = [pagePc EXCEPT
                    ![stage][IF perPage = 0 THEN spawned[stage] ELSE offset] = "throttle"]
    /\ spawned' = [spawned EXCEPT ![stage] = @ + 1]
    /\ offset' = offset + perPage
    /\ UNCHANGED <<budgetVars, inputVars, execVars, workerVars, callerVars, countVars, stage, iters, i,
                   fetchCalls, throttle, pageIdx>>

\* the spawning loop ends; for i := iters
FetchSpawnEnd ==
    /\ ~exited
    /\ callerPc = "fetch_spawn"
    /\ ~SpawnMore(offset, count[stage])
    /\ i' = iters
    /\ callerPc' = "fetch_wait"
    /\ UNCHANGED <<budgetVars, inputVars, execVars, workerVars, n, count, count_total, fetching, f, rows,
                   ret, countVars, stage, iters, offset, spawned, fetchCalls,
                   throttle, pageVars>>

\* the completion loop: case <-fetch_ch: i--
FetchWaitRecv(o) ==
    /\ ~exited
    /\ callerPc = "fetch_wait"
    /\ i > 0
    /\ pagePc[stage][o] = "sig"
    /\ i' = i - 1
    /\ pagePc' = [pagePc EXCEPT ![stage][o] = "put_throttle"]
    /\ UNCHANGED <<budgetVars, inputVars, execVars, workerVars, callerVars, countVars, stage, iters,
                   offset, spawned, fetchCalls, throttle, pageIdx>>

\* The completion loop ends and FetchIntersectsAsync returns through its deferred
\* done_ch <- true; once another goroutine receives it, the caller goes on with
\* fetching += 1.
FetchExit ==
    /\ ~exited
    /\ callerPc \in {"fetch_wait", "fetch_defer"}
    /\ i = 0
    /\ \/ /\ callerPc = "fetch_wait"
          /\ callerPc' = "fetch_defer"
          /\ UNCHANGED <<fetching, f, stage>>
       \/ /\ callerPc = "fetch_defer"
          /\ DoneReceivers \ {<<"caller", NIL, 0>>} # {}
          /\ fetching' = fetching + 1
          /\ callerPc' = IF stage = "geom" THEN "check_centroid" ELSE "fetchloop"
          /\ f' = IF stage = "geom" THEN f ELSE fetching + 1
          /\ stage' = NIL
    /\ UNCHANGED <<budgetVars, inputVars, execVars, workerVars, n, count, count_total, rows, ret,
                   countVars, iters, offset, i, spawned, fetchCalls, throttle,
                   pageVars>>

\* The page goroutine changed to go on without a value from throttle_ch when
\* the channel is empty.
PageTakeSlot_noslot(p, o) ==
    /\ ~exited
    /\ pagePc[p][o] = "throttle"
    /\ throttle' = [throttle EXCEPT ![p] = IF @ > 0 THEN @ - 1 ELSE @]
    /\ pagePc' = [pagePc EXCEPT ![p][o] = "query"]
    /\ UNCHANGED <<budgetVars, inputVars, execVars, workerVars, callerVars, countVars, stage, iters,
                   offset, i, spawned, fetchCalls, pageIdx>>

\* a page goroutine: <-throttle_ch
PageTakeSlot(p, o) ==
    /\ ~exited
    /\ pagePc[p][o] = "throttle"
    /\ throttle[p] > 0
    /\ throttle' = [throttle EXCEPT ![p] = @ - 1]
    /\ pagePc' = [pagePc EXCEPT ![p][o] = "query"]
    /\ UNCHANGED <<budgetVars, inputVars, execVars, workerVars, callerVars, countVars, stage, iters,
                   offset, i, spawned, fetchCalls, pageIdx>>

\* db.Query succeeds: the result set starts at row offset
PageQueryOk(p, o) ==
    /\ ~exited
    /\ pagePc[p][o] = "query"
    /\ pageIdx' = [pageIdx EXCEPT ![p][o] = o]
    /\ pagePc' = [pagePc EXCEPT ![p][o] = "next"]
    /\ UNCHANGED <<budgetVars, inputVars, execVars, workerVars, callerVars, countVars, stageVars>>

\* db.Query fails: err_ch <- err
PageQueryErr(p, o) ==
    /\ ~exited
    /\ pagePc[p][o] = "query"
    /\ pagePc' = [pagePc EXCEPT ![p][o] = "send_err"]
    /\ UNCHANGED <<budgetVars, inputVars, execVars, workerVars, callerVars, countVars, stageVars, pageIdx>>

\* r.Next() is true and QueryRowToPgisRow decodes the row: rows_ch <- pg_row
PageRowOk(p, o) ==
    /\ ~exited
    /\ pagePc[p][o] = "next"
    /\ pageIdx[p][o] < PageEnd(o, perPage, N[p])
    /\ pagePc' = [pagePc EXCEPT ![p][o] = "send_row"]
    /\ UNCHANGED <<budgetVars, inputVars, execVars, workerVars, callerVars, countVars, stageVars, pageIdx>>

\* r.Next() is true and QueryRowToPgisRow fails: err_ch <- err
PageRowErr(p, o) ==
    /\ ~exited
    /\ pagePc[p][o] = "next"
    /\ pageIdx[p][o] < PageEnd(o, perPage, N[p])
    /\ pagePc' = [pagePc EXCEPT ![p][o] = "send_err"]
    /\ UNCHANGED <<budgetVars, inputVars, execVars, workerVars, callerVars, countVars, stageVars, pageIdx>>

\* r.Next() is false: the goroutine returns into its deferred fetch_ch <- true
PageRowsEnd(p, o) ==
    /\ ~exited
    /\ pagePc[p][o] = "next"
    /\ pageIdx[p][o] >= PageEnd(o, perPage, N[p])
    /\ pagePc' = [pagePc EXCEPT ![p][o] = "sig"]
    /\ UNCHANGED <<budgetVars, inputVars, execVars, workerVars, callerVars, countVars, stageVars, pageIdx>>

\* the deferred throttle_ch <- true, after fetch_ch <- true was taken
PagePutSlot(p, o) ==
    /\ ~exited
    /\ pagePc[p][o] = "put_throttle"
    /\ throttle[p] < numProcs
    /\ throttle' = [throttle EXCEPT ![p] = @ + 1]
    /\ pagePc' = [pagePc EXCEPT ![p][o] = "done"]
    /\ UNCHANGED <<budgetVars, inputVars, execVars, workerVars, callerVars, countVars, stage, iters,
                   offset, i, spawned, fetchCalls, pageIdx>>

\* The fetch loop of IntersectsFeature, for f := fetching; f > 0, and the return
\* after it. One select statement: its cases are the disjuncts.
FetchLoop ==
    /\ ~exited
    /\ callerPc = "fetchloop"
    /\ \/ /\ f = 0
          /\ ret' = Return(rows, NIL)
          /\ callerPc' = "Done"
          /\ UNCHANGED <<f, rows, countPc, pagePc, pageIdx>>
       \/ /\ f > 0
          /\ \E s \in RowSenders :
                /\ rows' = Append(rows, <<s[2], pageIdx[s[2]][s[3]]>>)
                /\ pageIdx' = [pageIdx EXCEPT ![s[2]][s[3]] = @ + 1]
                /\ pagePc' = PagePcAfter(s, "next")
          /\ UNCHANGED <<f, ret, callerPc, countPc>>
       \/ /\ f > 0
          /\ \E s \in ErrSenders :
                /\ ret' = ReturnErr(ErrOf(s))
                /\ countPc' = CountPcAfter(s, "send_done")
                /\ pagePc' = PagePcAfter(s, "sig")
          /\ callerPc' = "Failed"
          /\ UNCHANGED <<f, rows, pageIdx>>
       \/ /\ f > 0
          /\ \E s \in DoneSenders :
                /\ countPc' = CountPcAfter(s, "done")
          /\ f' = f - 1
          /\ UNCHANGED <<rows, ret, callerPc, pagePc, pageIdx>>
    /\ UNCHANGED <<budgetVars, inputVars, execVars, workerVars, n, count, count_total, fetching,
                   countVal, stageVars>>

CallNext ==
    \/ Start
    \/ \E p \in Parts : CountDbconn(p)
    \/ \E p \in Parts : CountQueryOk(p)
    \/ \E p \in Parts : CountQueryErr(p)
    \/ \E p \in Parts : CountLoopRecvCount(p)
    \/ \E s \in ErrSenders : CountLoopRecvErr(s)
    \/ \E s \in DoneSenders : CountLoopRecvDone(s)
    \/ CheckGeom
    \/ CheckCentroid
    \/ FetchDbconn
    \/ FetchSpawn
    \/ FetchSpawnEnd
    \/ \E o \in Offsets : FetchWaitRecv(o)
    \/ FetchExit
    \/ \E p \in Parts, o \in Offsets : PageTakeSlot(p, o)
    \/ \E p \in Parts, o \in Offsets : PageQueryOk(p, o)
    \/ \E p \in Parts, o \in Offsets : PageQueryErr(p, o)
    \/ \E p \in Parts, o \in Offsets : PageRowOk(p, o)
    \/ \E p \in Parts, o \in Offsets : PageRowErr(p, o)
    \/ \E p \in Parts, o \in Offsets : PageRowsEnd(p, o)
    \/ \E p \in Parts, o \in Offsets : PagePutSlot(p, o)
    \/ FetchLoop

\* ---------------------------------------------------------------- the client's methods
\* Goroutines other than the caller of IntersectsFeature call CountIntersects,
\* GetById and IndexFeature one after the other; the goroutines of a bulk
\* pipeline call IndexFile once and go on to their deferred calls.
Finish(w) ==
    /\ wPc' = [wPc EXCEPT ![w] = IF w \in Tasks THEN "deferred" ELSE "idle"]
    /\ opsDone' = [opsDone EXCEPT ![w] = @ + 1]
    /\ wOp' = [wOp EXCEPT ![w] = NIL]

CanStart(w) == ~exited /\ w \in Workers /\ wPc[w] = "idle" /\ opsDone[w] < calls[w]

\* CountIntersects or GetById is called: both start with client.dbconn()
StartQuery(w, op) ==
    /\ CanStart(w)
    /\ op \in {"CountIntersects", "GetById"}
    /\ wOp' = [wOp EXCEPT ![w] = op]
    /\ wPc' = [wPc EXCEPT ![w] = "dbconn"]
    /\ UNCHANGED <<budgetVars, inputVars, execVars, callerVars, countVars, stageVars, pageVars,
                   wItem, wRes, opsDone, store, bulkVars, pruneVars>>

\* Debug changed to return before the feature is looked at.
IndexFeatureCall_debugfirst(w, ft) ==
    IF debug \/ IndexPrepare(ft, geometry).status = "skip"
    THEN /\ wRes' = [wRes EXCEPT ![w] = NIL]
         /\ Finish(w)
         /\ UNCHANGED <<wItem, exited, exitBy>>
    ELSE IF IndexPrepare(ft, geometry).status = "error"
    THEN /\ wRes' = [wRes EXCEPT ![w] = "error"]
         /\ Finish(w)
         /\ UNCHANGED <<wItem, exited, exitBy>>
    ELSE /\ wPc' = [wPc EXCEPT ![w] = "dbconn"]
         /\ wOp' = [wOp EXCEPT ![w] = "IndexFeature"]
         /\ wItem' = [wItem EXCEPT ![w] = ft]
         /\ UNCHANGED <<wRes, opsDone, exited, exitBy>>

\* IndexFeature on the feature ft, up to its client.dbconn(). It returns nil for
\* id 0 (before the geometry is looked at), an error when the preparation
\* fails, nil without a write under Debug; the goroutine panics in bbox mode
\* on a feature without bbox, and no goroutine recovers.
IndexFeatureCall(w, ft) ==
    LET pr == IndexPrepare(ft, geometry)
    IN  IF pr.status = "panic"
        THEN /\ exited' = TRUE
             /\ exitBy' = "panic"
             /\ UNCHANGED <<wPc, wOp, wItem, wRes, opsDone>>
        ELSE IF pr.status = "skip"
        THEN /\ wRes' = [wRes EXCEPT ![w] = NIL]
             /\ Finish(w)
             /\ UNCHANGED <<wItem, exited, exitBy>>
        ELSE IF pr.status = "error"
        THEN /\ wRes' = [wRes EXCEPT ![w] = "error"]
             /\ Finish(w)
             /\ UNCHANGED <<wItem, exited, exitBy>>
        ELSE IF debug
        THEN /\ wRes' = [wRes EXCEPT ![w] = NIL]
             /\ Finish(w)
             /\ UNCHANGED <<wItem, exited, exitBy>>
        ELSE /\ wPc' = [wPc EXCEPT ![w] = "dbconn"]
             /\ wOp' = [wOp EXCEPT ![w] = "IndexFeature"]
             /\ wItem' = [wItem EXCEPT ![w] = ft]
             /\ UNCHANGED <<wRes, opsDone, exited, exitBy>>

\* IndexFeature is called on a feature
StartIndex(w, ft) ==
    /\ CanStart(w)
    /\ ft \in pool
    /\ IndexFeatureCall(w, ft)
    /\ UNCHANGED <<maxconns, conns, held, debug, geometry, pool, inputVars, execVars,
                   callerVars, countVars, stageVars, pageVars, store, bulkVars,
                   pruneVars>>

\* db, err := client.dbconn() of CountIntersects, GetById and IndexFeature
WorkerDbconn(w) ==
    /\ ~exited
    /\ wPc[w] = "dbconn"
    /\ dbconn(Worker(w))
    /\ wPc' = [wPc EXCEPT ![w] = IF wOp[w] = "IndexFeature" THEN "exec" ELSE "query"]
    /\ UNCHANGED <<inputVars, execVars, callerVars, countVars, stageVars, pageVars, wOp,
                   wItem, wRes, opsDone, store, bulkVars, pruneVars>>

\* CountIntersects and GetById: QueryRow and Scan, then return count_rows, nil
\* or pg_row, nil, or on a failed Scan -1, err or nil, err. No
\* client.conns <- true on any way out.
QueryReturn(w) ==
    /\ ~exited
    /\ wPc[w] = "query"
    /\ Finish(w)
    /\ UNCHANGED <<budgetVars, inputVars, execVars, callerVars, countVars, stageVars, pageVars,
                   wItem, wRes, store, bulkVars, pruneVars>>

\* IndexFeature: db.Exec succeeds, return nil through the deferred
\* client.conns <- true
IndexExecOk(w) ==
    /\ ~exited
    /\ wPc[w] = "exec"
    /\ LET ft == wItem[w]
           pr == IndexPrepare(ft, geometry)
       IN  /\ Executable(Statement(pr.geom, pr.centroid))
           /\ store' = Upsert(store, ft.id, ft.props, pr.geom, pr.centroid)
    /\ release(Worker(w))
    /\ wItem' = [wItem EXCEPT ![w] = NoItem]
    /\ wRes' = [wRes EXCEPT ![w] = NIL]
    /\ Finish(w)
    /\ UNCHANGED <<inputVars, execVars, callerVars, countVars, stageVars, pageVars,
                   bulkVars, pruneVars>>

\* IndexFeature: db.Exec fails, os.Exit(1); deferred calls do not run
IndexExecErr(w) ==
    /\ ~exited
    /\ wPc[w] = "exec"
    /\ exited' = TRUE
    /\ exitBy' = "os.Exit"
    /\ UNCHANGED <<maxconns, conns, held, debug, geometry, pool, inputVars, execVars,
                   callerVars, countVars, stageVars, pageVars, workerVars>>

\* ---------------------------------------------------------------- Prune
\* Prune is called, by a goroutine of its own
PruneStart(delete) ==
    /\ ~exited
    /\ prPc = "idle"
    /\ prDelete' = delete
    /\ prPc' = "dbconn"
    /\ UNCHANGED <<budgetVars, inputVars, execVars, callerVars, countVars, stageVars, pageVars,
                   procVars, store, bulkVars, prCount, prOffset, prRow, prThrottle, prWg, rowPc>>

\* db, err := client.dbconn()
PruneDbconn ==
    /\ ~exited
    /\ prPc = "dbconn"
    /\ dbconn(Pruner)
    /\ prPc' = "count"
    /\ UNCHANGED <<inputVars, execVars, callerVars, countVars, stageVars, pageVars,
                   procVars, store, bulkVars, prDelete, prCount, prOffset, prRow, prThrottle,
                   prWg, rowPc>>

\* SELECT COUNT(id) succeeds; the first test of the page loop follows
PruneCountOk(c) ==
    /\ ~exited
    /\ prPc = "count"
    /\ prCount' = c
    /\ prOffset' = 0
    /\ prPc' = "page"
    /\ UNCHANGED <<budgetVars, inputVars, execVars, callerVars, countVars, stageVars, pageVars,
                   procVars, store, bulkVars, prDelete, prRow, prThrottle, prWg, rowPc>>

\* return err: of the count's Scan, of a page's db.Query, of a row's Scan. The
\* permit of the first dbconn stays taken and row goroutines may still run.
PruneReturnErr ==
    /\ ~exited
    /\ \/ prPc = "count"
       \/ prPc = "page" /\ prOffset < prCount
       \/ prPc = "rows" /\ prRow < PageEnd(prOffset, PruneLimit, prCount)
    /\ prPc' = "returned"
    /\ UNCHANGED <<budgetVars, inputVars, execVars, callerVars, countVars, stageVars, pageVars,
                   procVars, store, bulkVars, prDelete, prCount, prOffset, prRow, prThrottle,
                   prWg, rowPc>>

\* one page: db.Query succeeds, throttle is pre-loaded, wg is new
PrunePage ==
    /\ ~exited
    /\ prPc = "page"
    /\ prOffset < prCount
    /\ prRow' = prOffset
    /\ prThrottle' = HostProcs
    /\ prWg' = 0
    /\ prPc' = "rows"
    /\ UNCHANGED <<budgetVars, inputVars, execVars, callerVars, countVars, stageVars, pageVars,
                   procVars, store, bulkVars, prDelete, prCount, prOffset, rowPc>>

\* the page loop ends: return nil, with the permit of the first dbconn still taken
PruneReturn ==
    /\ ~exited
    /\ prPc = "page"
    /\ prOffset >= prCount
    /\ prPc' = "returned"
    /\ UNCHANGED <<budgetVars, inputVars, execVars, callerVars, countVars, stageVars, pageVars,
                   procVars, store, bulkVars, prDelete, prCount, prOffset, prRow, prThrottle,
                   prWg, rowPc>>

\* rows.Next(), rows.Scan, <-throttle, wg.Add(1), go func(...)
PruneSpawn ==
    /\ ~exited
    /\ prPc = "rows"
    /\ prRow < PageEnd(prOffset, PruneLimit, prCount)
    /\ prThrottle > 0
    /\ prThrottle' = prThrottle - 1
    /\ prWg' = prWg + 1
    /\ rowPc' = [rowPc EXCEPT ![prRow] = "start"]
    /\ prRow' = prRow + 1
    /\ UNCHANGED <<budgetVars, inputVars, execVars, callerVars, countVars, stageVars, pageVars,
                   procVars, store, bulkVars, prPc, prDelete, prCount, prOffset>>

\* rows.Next() is false: wg.Wait()
PruneRowsEnd ==
    /\ ~exited
    /\ prPc = "rows"
    /\ prRow >= PageEnd(prOffset, PruneLimit, prCount)
    /\ prPc' = "wait"
    /\ UNCHANGED <<budgetVars, inputVars, execVars, callerVars, countVars, stageVars, pageVars,
                   procVars, store, bulkVars, prDelete, prCount, prOffset, prRow, prThrottle,
                   prWg, rowPc>>

\* wg.Wait() returns; offset += limit
PruneWaitDone ==
    /\ ~exited
    /\ prPc = "wait"
    /\ prWg = 0
    /\ prOffset' = prOffset + PruneLimit
    /\ prPc' = "page"
    /\ UNCHANGED <<budgetVars, inputVars, execVars, callerVars, countVars, stageVars, pageVars,
                   procVars, store, bulkVars, prDelete, prCount, prRow, prThrottle, prWg, rowPc>>

\* a row goroutine returns before the delete: the meta does not decode, the
\* path cannot be made, the file exists, or delete is false
RowKeep(r) ==
    /\ ~exited
    /\ rowPc[r] = "start"
    /\ rowPc' = [rowPc EXCEPT ![r] = "wg_done"]
    /\ UNCHANGED <<budgetVars, inputVars, execVars, callerVars, countVars, stageVars, pageVars,
                   procVars, store, bulkVars, prPc, prDelete, prCount, prOffset, prRow,
                   prThrottle, prWg>>

\* the file does not exist and delete is true: on to client.dbconn()
RowMissing(r) ==
    /\ ~exited
    /\ rowPc[r] = "start"
    /\ prDelete
    /\ rowPc' = [rowPc EXCEPT ![r] = "dbconn"]
    /\ UNCHANGED <<budgetVars, inputVars, execVars, callerVars, countVars, stageVars, pageVars,
                   procVars, store, bulkVars, prPc, prDelete, prCount, prOffset, prRow,
                   prThrottle, prWg>>

RowDbconn(r) ==
    /\ ~exited
    /\ rowPc[r] = "dbconn"
    /\ dbconn(RowTask(r))
    /\ rowPc' = [rowPc EXCEPT ![r] = "exec"]
    /\ UNCHANGED <<inputVars, execVars, callerVars, countVars, stageVars, pageVars,
                   procVars, store, bulkVars, prPc, prDelete, prCount, prOffset, prRow,
                   prThrottle, prWg>>

\* db.Exec of the DELETE (an error is logged only), then the deferred
\* client.conns <- true
RowExec(r) ==
    /\ ~exited
    /\ rowPc[r] = "exec"
    /\ release(RowTask(r))
    /\ rowPc' = [rowPc EXCEPT ![r] = "wg_done"]
    /\ UNCHANGED <<inputVars, execVars, callerVars, countVars, stageVars, pageVars,
                   procVars, store, bulkVars, prPc, prDelete, prCount, prOffset, prRow,
                   prThrottle, prWg>>

\* the deferred wg.Done()
RowWgDone(r) ==
    /\ ~exited
    /\ rowPc[r] = "wg_done"
    /\ prWg' = prWg - 1
    /\ rowPc' = [rowPc EXCEPT ![r] = "put_throttle"]
    /\ UNCHANGED <<budgetVars, inputVars, execVars, callerVars, countVars, stageVars, pageVars,
                   procVars, store, bulkVars, prPc, prDelete, prCount, prOffset, prRow,
                   prThrottle>>

\* the deferred throttle <- true
RowPutSlot(r) ==
    /\ ~exited
    /\ rowPc[r] = "put_throttle"
    /\ prThrottle < HostProcs
    /\ prThrottle' = prThrottle + 1
    /\ rowPc' = [rowPc EXCEPT ![r] = "done"]
    /\ UNCHANGED <<budgetVars, inputVars, execVars, callerVars, countVars, stageVars, pageVars,
                   procVars, store, bulkVars, prPc, prDelete, prCount, prOffset, prRow, prWg>>

\* ---------------------------------------------------------------- bulk pipelines
\* A line of the meta file or of the file list, or a file of the directory:
\* a path to a file that geojson.UnmarshalFile decodes to a feature or does
\* not, a file name that is not <id>.geojson, or a failed read of the stream.
File(ft) == [kind |-> "file", decodes |-> TRUE, feature |-> ft]
Undecodable == [kind |-> "file", decodes |-> FALSE, feature |-> Earth]
OtherFile == [kind |-> "other", decodes |-> FALSE, feature |-> Earth]
ReadError == [kind |-> "read_err", decodes |-> FALSE, feature |-> Earth]

BulkOps == {"IndexMetaFile", "IndexFileList", "IndexDirectory"}
Spawning == bulkOp \in {"IndexMetaFile", "IndexFileList"}

\* IndexMetaFile, IndexFileList or IndexDirectory is called. The first two
\* return the error of opening their file; otherwise they make ch and start the
\* goroutine that pre-loads it.
BulkStart(op) ==
    /\ ~exited
    /\ bPc = "idle"
    /\ op \in BulkOps
    /\ bulkOp' = op
    /\ \/ /\ op # "IndexDirectory"
          /\ bPc' = "returned"
          /\ bRet' = "open_error"
       \/ /\ bPc' = "read"
          /\ UNCHANGED bRet
    /\ UNCHANGED <<budgetVars, inputVars, execVars, callerVars, countVars, stageVars, pageVars,
                   procVars, store, stream, hasPath, bPath, bNext, bCh, bPre, bWg,
                   bStats, pruneVars>>

\* go func() { for i := 0; i < count; i++ { ch <- true } }()
BulkPreload ==
    /\ ~exited
    /\ Spawning
    /\ bPc # "idle"
    /\ bRet # "open_error"
    /\ bPre < HostProcs
    /\ bCh < HostProcs
    /\ bPre' = bPre + 1
    /\ bCh' = bCh + 1
    /\ UNCHANGED <<budgetVars, inputVars, execVars, callerVars, countVars, stageVars, pageVars,
                   procVars, store, bulkOp, stream, hasPath, bPath, bPc, bNext, bWg,
                   bRet, bStats, pruneVars>>

\* IndexMetaFile: return err of reader.Read(), return errors.New("missing 'path'
\* column in meta file"), with no wg.Wait()
BulkReturnErr ==
    /\ bPc' = "returned"
    /\ bRet' = "error"
    /\ UNCHANGED bNext

\* reader.Read(), scanner.Scan(), or the crawler's next file. At the end of the
\* stream: wg.Wait(), or the return of c.Crawl. scanner.Scan() is false on a
\* failed read as at the end. The crawler calls cb(abs_path, info) on the
\* goroutine of IndexDirectory.
BulkRead ==
    /\ ~exited
    /\ bPc = "read"
    /\ IF bNext = Len(stream)
       THEN /\ bPc' = "wait"
            /\ UNCHANGED <<bNext, bRet, wPc, bStats, bPath>>
       ELSE LET item == stream[bNext + 1] IN
            IF bulkOp = "IndexMetaFile" /\ (item.kind = "read_err" \/ ~hasPath)
            THEN /\ BulkReturnErr
                 /\ UNCHANGED <<wPc, bStats, bPath>>
            ELSE IF item.kind = "read_err"
            THEN /\ bPc' = "wait"
                 /\ UNCHANGED <<bNext, bRet, wPc, bStats, bPath>>
            ELSE IF Spawning
            THEN /\ bPc' = "take_slot"
                 /\ bNext' = bNext + 1
                 /\ UNCHANGED <<bRet, wPc, bStats, bPath>>
            ELSE IF item.kind = "other"
            THEN /\ bNext' = bNext + 1
                 /\ UNCHANGED <<bPc, bRet, wPc, bStats, bPath>>
            ELSE /\ bNext' = bNext + 1
                 /\ bStats' = [bStats EXCEPT !.count = @ + 1]
                 /\ wPc' = [wPc EXCEPT ![TaskOf(bNext + 1)] = "indexfile"]
                 /\ bPath' = [bPath EXCEPT ![bNext + 1] = bNext + 1]
                 /\ bPc' = "incall"
                 /\ UNCHANGED bRet
    /\ UNCHANGED <<budgetVars, inputVars, execVars, callerVars, countVars, stageVars, pageVars,
                   wOp, wItem, wRes, opsDone, store, bulkOp, stream, hasPath,
                   bCh, bPre, bWg, pruneVars>>

\* The pipeline changed to start the goroutine without a value from ch when
\* the channel is empty.
BulkTakeSlot_noslot ==
    /\ ~exited
    /\ bPc = "take_slot"
    /\ bCh' = IF bCh > 0 THEN bCh - 1 ELSE bCh
    /\ bWg' = bWg + 1
    /\ wPc' = [wPc EXCEPT ![TaskOf(bNext)] = "indexfile"]
    /\ bPath' = [bPath EXCEPT ![bNext] = bNext]
    /\ bPc' = "read"
    /\ UNCHANGED <<budgetVars, inputVars, execVars, callerVars, countVars, stageVars, pageVars,
                   wOp, wItem, wRes, opsDone, store, bulkOp, stream, hasPath,
                   bNext, bPre, bRet, bStats, pruneVars>>

\* The pipeline changed to hand every goroutine the path of the first item.
BulkTakeSlot_firstpath ==
    /\ ~exited
    /\ bPc = "take_slot"
    /\ bCh > 0
    /\ bCh' = bCh - 1
    /\ bWg' = bWg + 1
    /\ wPc' = [wPc EXCEPT ![TaskOf(bNext)] = "indexfile"]
    /\ bPath' = [bPath EXCEPT ![bNext] = 1]
    /\ bPc' = "read"
    /\ UNCHANGED <<budgetVars, inputVars, execVars, callerVars, countVars, stageVars, pageVars,
                   wOp, wItem, wRes, opsDone, store, bulkOp, stream, hasPath,
                   bNext, bPre, bRet, bStats, pruneVars>>

\* <-ch, wg.Add(1), go func(...) { ... client.IndexFile(...) }
BulkTakeSlot ==
    /\ ~exited
    /\ bPc = "take_slot"
    /\ bCh > 0
    /\ bCh' = bCh - 1
    /\ bWg' = bWg + 1
    /\ wPc' = [wPc EXCEPT ![TaskOf(bNext)] = "indexfile"]
    /\ bPath' = [bPath EXCEPT ![bNext] = bNext]
    /\ bPc' = "read"
    /\ UNCHANGED <<budgetVars, inputVars, execVars, callerVars, countVars, stageVars, pageVars,
                   wOp, wItem, wRes, opsDone, store, bulkOp, stream, hasPath,
                   bNext, bPre, bRet, bStats, pruneVars>>

\* IndexFile on the path the goroutine was given: geojson.UnmarshalFile, then
\* return err or return client.IndexFeature(feature, collection)
TaskIndexFile(k) ==
    /\ ~exited
    /\ k \in 1..Len(stream)
    /\ wPc[TaskOf(k)] = "indexfile"
    /\ IF stream[bPath[k]].decodes
       THEN IndexFeatureCall(TaskOf(k), stream[bPath[k]].feature)
       ELSE /\ wRes' = [wRes EXCEPT ![TaskOf(k)] = "error"]
            /\ Finish(TaskOf(k))
            /\ UNCHANGED <<wItem, exited, exitBy>>
    /\ UNCHANGED <<maxconns, conns, held, debug, geometry, pool, inputVars, execVars,
                   callerVars, countVars, stageVars, pageVars, store, bulkVars,
                   pruneVars>>

\* A goroutine of IndexMetaFile or IndexFileList after client.IndexFile has
\* returned: IndexMetaFile's deferred func is wg.Done() and then ch <- true,
\* IndexFileList's goroutine does ch <- true and then its deferred wg.Done().
TaskWgDone(k) ==
    /\ ~exited
    /\ Spawning
    /\ \/ bulkOp = "IndexMetaFile" /\ wPc[TaskOf(k)] = "deferred"
       \/ bulkOp = "IndexFileList" /\ wPc[TaskOf(k)] = "deferred2"
    /\ bWg' = bWg - 1
    /\ wPc' = [wPc EXCEPT ![TaskOf(k)] =
                  IF bulkOp = "IndexMetaFile" THEN "deferred2" ELSE "done"]
    /\ UNCHANGED <<budgetVars, inputVars, execVars, callerVars, countVars, stageVars, pageVars,
                   wOp, wItem, wRes, opsDone, store, bulkOp, stream, hasPath, bPath,
                   bPc, bNext, bCh, bPre, bRet, bStats, pruneVars>>

TaskPutSlot(k) ==
    /\ ~exited
    /\ Spawning
    /\ \/ bulkOp = "IndexFileList" /\ wPc[TaskOf(k)] = "deferred"
       \/ bulkOp = "IndexMetaFile" /\ wPc[TaskOf(k)] = "deferred2"
    /\ bCh < HostProcs
    /\ bCh' = bCh + 1
    /\ wPc' = [wPc EXCEPT ![TaskOf(k)] =
                  IF bulkOp = "IndexFileList" THEN "deferred2" ELSE "done"]
    /\ UNCHANGED <<budgetVars, inputVars, execVars, callerVars, countVars, stageVars, pageVars,
                   wOp, wItem, wRes, opsDone, store, bulkOp, stream, hasPath, bPath,
                   bPc, bNext, bPre, bWg, bRet, bStats, pruneVars>>

\* IndexDirectory's cb after client.IndexFile has returned: errs += 1 and
\* return errors.New(msg), or ok += 1 and return nil. What the crawler does with
\* the error of cb is not in this repository: it walks on, or it ends the walk.
DirCallback(k) ==
    /\ ~exited
    /\ bulkOp = "IndexDirectory"
    /\ bPc = "incall"
    /\ wPc[TaskOf(k)] = "deferred"
    /\ wPc' = [wPc EXCEPT ![TaskOf(k)] = "done"]
    /\ IF wRes[TaskOf(k)] = "error"
       THEN /\ bStats' = [bStats EXCEPT !.errs = @ + 1]
            /\ bPc' \in {"read", "wait"}
       ELSE /\ bStats' = [bStats EXCEPT !.ok = @ + 1]
            /\ bPc' = "read"
    /\ UNCHANGED <<budgetVars, inputVars, execVars, callerVars, countVars, stageVars, pageVars,
                   wOp, wItem, wRes, opsDone, store, bulkOp, stream, hasPath, bPath,
                   bNext, bCh, bPre, bWg, bRet, pruneVars>>

\* wg.Wait() returns and the pipeline returns nil; IndexDirectory logs its
\* counts and returns nil.
BulkReturn ==
    /\ ~exited
    /\ bPc = "wait"
    /\ bWg = 0
    /\ bPc' = "returned"
    /\ bRet' = NIL
    /\ UNCHANGED <<budgetVars, inputVars, execVars, callerVars, countVars, stageVars, pageVars,
                   procVars, store, bulkOp, stream, hasPath, bPath, bNext, bCh, bPre,
                   bWg, bStats, pruneVars>>

BulkNext ==
    \/ \E op \in BulkOps : BulkStart(op)
    \/ BulkPreload
    \/ BulkRead
    \/ BulkTakeSlot
    \/ \E k \in 1..MaxItems : TaskIndexFile(k)
    \/ \E k \in 1..MaxItems : WorkerDbconn(TaskOf(k))
    \/ \E k \in 1..MaxItems : IndexExecOk(TaskOf(k))
    \/ \E k \in 1..MaxItems : IndexExecErr(TaskOf(k))
    \/ \E k \in 1..MaxItems : TaskWgDone(k)
    \/ \E k \in 1..MaxItems : TaskPutSlot(k)
    \/ \E k \in 1..MaxItems : DirCallback(k)
    \/ BulkReturn

WorkerNext ==
    \/ \E w \in Workers, op \in {"CountIntersects", "GetById"} : StartQuery(w, op)
    \/ \E w \in Workers, ft \in pool : StartIndex(w, ft)
    \/ \E w \in Workers : WorkerDbconn(w)
    \/ \E w \in Workers : QueryReturn(w)
    \/ \E w \in Workers : IndexExecOk(w)
    \/ \E w \in Workers : IndexExecErr(w)

PruneNext ==
    \/ \E d \in BOOLEAN : PruneStart(d)
    \/ PruneDbconn
    \/ \E c \in 0..MaxPruneRows : PruneCountOk(c)
    \/ PruneReturnErr
    \/ PrunePage
    \/ PruneReturn
    \/ PruneSpawn
    \/ PruneRowsEnd
    \/ PruneWaitDone
    \/ \E r \in PruneRows : RowKeep(r)
    \/ \E r \in PruneRows : RowMissing(r)
    \/ \E r \in PruneRows : RowDbconn(r)
    \/ \E r \in PruneRows : RowExec(r)
    \/ \E r \in PruneRows : RowWgDone(r)
    \/ \E r \in PruneRows : RowPutSlot(r)

\* ---------------------------------------------------------------- PgisIndexer.Exec
\* Exec is called: err_ch and done_ch are made
ExecStart ==
    /\ ~exited
    /\ execPc \in {"idle", "returned"}
    /\ execCalls < MaxExecCalls
    /\ execCalls' = execCalls + 1
    /\ execPc' = "spawn"
    /\ execI' = 0
    /\ execRet' = "none"
    /\ taskPc' = [c \in Clients |-> "none"]
    /\ taskRan' = [c \in Clients |-> FALSE]
    /\ UNCHANGED <<budgetVars, inputVars, callerVars, countVars, stageVars, pageVars,
                   workerVars, idxClients, cConns, cOther, pending, taskHeld>>

\* for _, client := range idx.clients { go func(..., client, ...) }: the
\* goroutine is given its client as an argument
ExecSpawn ==
    /\ ~exited
    /\ execPc = "spawn"
    /\ execI < idxClients
    /\ execI' = execI + 1
    /\ taskPc' = [taskPc EXCEPT ![execI + 1] = "dbconn"]
    /\ UNCHANGED <<budgetVars, inputVars, callerVars, countVars, stageVars, pageVars,
                   workerVars, idxClients, cConns, cOther, execPc, execCalls, pending,
                   execRet, taskHeld, taskRan>>

\* the range is over: pending := len(idx.clients)
ExecSpawnEnd ==
    /\ ~exited
    /\ execPc = "spawn"
    /\ execI >= idxClients
    /\ pending' = idxClients
    /\ execPc' = "wait"
    /\ UNCHANGED <<budgetVars, inputVars, callerVars, countVars, stageVars, pageVars,
                   workerVars, idxClients, cConns, cOther, execCalls, execI, execRet,
                   taskPc, taskHeld, taskRan>>

\* case <-done_ch: pending -= 1, with the goroutine of client c sending. No
\* goroutine sends on err_ch, so `case err := <-err_ch` is never taken.
ExecRecvDone(c) ==
    /\ ~exited
    /\ execPc = "wait"
    /\ pending > 0
    /\ taskPc[c] = "put_done"
    /\ pending' = pending - 1
    /\ taskPc' = [taskPc EXCEPT ![c] = "done"]
    /\ UNCHANGED <<budgetVars, inputVars, callerVars, countVars, stageVars, pageVars,
                   workerVars, idxClients, cConns, cOther, execPc, execCalls, execI,
                   execRet, taskHeld, taskRan>>

\* `for pending > 0` is over: return nil
ExecReturn ==
    /\ ~exited
    /\ execPc = "wait"
    /\ pending <= 0
    /\ execRet' = NIL
    /\ execPc' = "returned"
    /\ UNCHANGED <<budgetVars, inputVars, callerVars, countVars, stageVars, pageVars,
                   workerVars, idxClients, cConns, cOther, execCalls, execI, pending,
                   taskPc, taskHeld, taskRan>>

\* The goroutine changed to use the client variable of Exec's loop, which is
\* at the last client by the time the goroutine runs.
TaskDbconn_loopvar(c) ==
    /\ ~exited
    /\ taskPc[c] = "dbconn"
    /\ cConns[idxClients] > 0
    /\ cConns' = [cConns EXCEPT ![idxClients] = @ - 1]
    /\ taskHeld' = [taskHeld EXCEPT ![c] = @ + 1]
    /\ taskPc' = [taskPc EXCEPT ![c] = "exec"]
    /\ UNCHANGED <<budgetVars, inputVars, callerVars, countVars, stageVars, pageVars,
                   workerVars, idxClients, cOther, execPc, execCalls, execI, pending,
                   execRet, taskRan>>

\* db, err := client.dbconn() of the goroutine's own client: <-client.conns.
\* dbconn returns no error.
TaskDbconn(c) ==
    /\ ~exited
    /\ taskPc[c] = "dbconn"
    /\ cConns[c] > 0
    /\ cConns' = [cConns EXCEPT ![c] = @ - 1]
    /\ taskHeld' = [taskHeld EXCEPT ![c] = @ + 1]
    /\ taskPc' = [taskPc EXCEPT ![c] = "exec"]
    /\ UNCHANGED <<budgetVars, inputVars, callerVars, countVars, stageVars, pageVars,
                   workerVars, idxClients, cOther, execPc, execCalls, execI, pending,
                   execRet, taskRan>>

\* db.Exec returns without error; the deferred calls follow
TaskExecOk(c) ==
    /\ ~exited
    /\ taskPc[c] = "exec"
    /\ taskRan' = [taskRan EXCEPT ![c] = TRUE]
    /\ taskPc' = [taskPc EXCEPT ![c] = "put_conn"]
    /\ UNCHANGED <<budgetVars, inputVars, callerVars, countVars, stageVars, pageVars,
                   workerVars, idxClients, cConns, cOther, execPc, execCalls, execI,
                   pending, execRet, taskHeld>>

\* db.Exec fails: os.Exit(1); deferred calls do not run
TaskExecErr(c) ==
    /\ ~exited
    /\ taskPc[c] = "exec"
    /\ exited' = TRUE
    /\ exitBy' = "os.Exit"
    /\ UNCHANGED <<maxconns, conns, held, debug, geometry, pool, inputVars,
                   callerVars, countVars, stageVars, pageVars, workerVars, idxClients,
                   cConns, cOther, execPc, execCalls, execI, pending, execRet, taskPc,
                   taskHeld, taskRan>>

\* the deferred client.conns <- true, which runs before the deferred
\* done_ch <- true
TaskPutConn(c) ==
    /\ ~exited
    /\ taskPc[c] = "put_conn"
    /\ cConns[c] < maxconns
    /\ cConns' = [cConns EXCEPT ![c] = @ + 1]
    /\ taskHeld' = [taskHeld EXCEPT ![c] = @ - 1]
    /\ taskPc' = [taskPc EXCEPT ![c] = "put_done"]
    /\ UNCHANGED <<budgetVars, inputVars, callerVars, countVars, stageVars, pageVars,
                   workerVars, idxClients, cOther, execPc, execCalls, execI, pending,
                   execRet, taskRan>>

\* another goroutine's IndexFeature on the client c takes a permit of it
\* through client.dbconn(), and gives it back on its return
ClientTake(c) ==
    /\ ~exited
    /\ c <= idxClients
    /\ cOther[c] = 0
    /\ cConns[c] > 0
    /\ cConns' = [cConns EXCEPT ![c] = @ - 1]
    /\ cOther' = [cOther EXCEPT ![c] = @ + 1]
    /\ UNCHANGED <<budgetVars, inputVars, callerVars, countVars, stageVars, pageVars,
                   workerVars, idxClients, execPc, execCalls, execI, pending, execRet,
                   taskPc, taskHeld, taskRan>>

ClientGive(c) ==
    /\ ~exited
    /\ cOther[c] > 0
    /\ cConns[c] < maxconns
    /\ cConns' = [cConns EXCEPT ![c] = @ + 1]
    /\ cOther' = [cOther EXCEPT ![c] = @ - 1]
    /\ UNCHANGED <<budgetVars, inputVars, callerVars, countVars, stageVars, pageVars,
                   workerVars, idxClients, execPc, execCalls, execI, pending, execRet,
                   taskPc, taskHeld, taskRan>>

ExecNext ==
    \/ ExecStart
    \/ ExecSpawn
    \/ ExecSpawnEnd
    \/ \E c \in Clients : ExecRecvDone(c)
    \/ ExecReturn
    \/ \E c \in Clients : TaskDbconn(c)
    \/ \E c \in Clients : TaskExecOk(c)
    \/ \E c \in Clients : TaskExecErr(c)
    \/ \E c \in Clients : TaskPutConn(c)
    \/ \E c \in Clients : ClientTake(c)
    \/ \E c \in Clients : ClientGive(c)

\* ---------------------------------------------------------------- specifications
Next == CallNext

\* One call of IntersectsFeature on a fresh client.
Spec == Init /\ [][Next]_vars

\* One call of IntersectsFeature with options as any caller can make them: the
\* fields of PgisIntersectsOptions a caller leaves out are 0, as in the main of
\* the intersects command, which sets neither PerPage nor NumProcesses.
OptsInit ==
    /\ NewPgisClient
    /\ debug = FALSE
    /\ geometry = ""
    /\ pool = {}
    /\ calls = [w \in Workers |-> MaxOps]
    /\ hasGeom \in BOOLEAN
    /\ N \in [Parts -> 0..MaxRows]
    /\ perPage \in 0..MaxPerPage
    /\ numProcs \in 0..MaxProcs
    /\ InitCallLocals
    /\ InitWorkers
    /\ InitBulk
    /\ NoExec
    /\ NoStream

OptsSpec == OptsInit /\ [][CallNext]_vars

\* The call together with goroutines that use the same client's other methods.
BudgetInit ==
    /\ NewPgisClient
    /\ debug = FALSE
    /\ hasGeom = TRUE
    /\ N \in [Parts -> 0..BudgetRows]
    /\ perPage = 1
    /\ numProcs = 1
    /\ InitCall
    /\ geometry = ""
    /\ pool = {Place(1, "Polygon"), Place(1, "LineString")}
    /\ calls = [w \in Workers |-> BudgetOps]
    /\ InitWorkers
    /\ InitBulk
    /\ NoExec
    /\ NoStream

BudgetNext == CallNext \/ WorkerNext

BudgetSpec == BudgetInit /\ [][BudgetNext]_vars

\* Prune together with goroutines that use the same client's other methods; no
\* call of IntersectsFeature.
PruneInit ==
    /\ NewPgisClient
    /\ debug = FALSE
    /\ NoCall
    /\ InitCall
    /\ geometry = ""
    /\ pool = {Place(1, "Polygon"), Place(1, "LineString")}
    /\ calls = [w \in Workers |-> MaxOps]
    /\ InitWorkers
    /\ InitBulk
    /\ NoExec
    /\ NoStream

PruneSpecNext == WorkerNext \/ PruneNext

PruneSpec == PruneInit /\ [][PruneSpecNext]_vars

\* One goroutine calls IndexFeature, one call after the other: on one feature
\* of any kind, or on the features that get as far as the write.
IndexInit ==
    /\ NewPgisClient
    /\ maxconns = 1
    /\ debug \in BOOLEAN
    /\ geometry \in GeometryModes
    /\ pool \in {{ft} : ft \in Features} \cup {Writable}
    /\ calls = [w \in Workers |-> IF w = 1 THEN MaxOps ELSE 0]
    /\ NoCall
    /\ InitCall
    /\ InitWorkers
    /\ InitBulk
    /\ NoExec
    /\ NoStream

IndexNext ==
    \/ \E w \in Workers, ft \in pool : StartIndex(w, ft)
    \/ \E w \in Workers : WorkerDbconn(w)
    \/ \E w \in Workers : IndexExecOk(w)
    \/ \E w \in Workers : IndexExecErr(w)

IndexSpec == IndexInit /\ [][IndexNext]_vars

\* One run of a bulk pipeline over a stream of at most MaxItems items.
BulkItems ==
    {File(Place(id, "Polygon")) : id \in Ids}
    \cup {File(Place(1, "Point")), File(Place(1, "LineString")),
          File(NoBbox(MaxIds, "Polygon")), Undecodable, OtherFile, ReadError}

RECURSIVE Streams(_)
Streams(len) ==
    IF len = 0 THEN {<<>>}
    ELSE LET shorter == Streams(len - 1)
         IN  shorter \cup {Append(s, x) : s \in {y \in shorter : Len(y) = len - 1},
                                          x \in BulkItems}

BulkInit ==
    /\ NewPgisClient
    /\ maxconns = 1
    /\ debug = FALSE
    /\ geometry \in {"", "bbox"}
    /\ pool = {}
    /\ calls = [w \in Workers |-> 0]
    /\ NoCall
    /\ InitCall
    /\ InitWorkers
    /\ InitBulk
    /\ NoExec
    /\ stream \in Streams(MaxItems)
    /\ hasPath \in BOOLEAN

BulkSpec == BulkInit /\ [][BulkNext]_vars

\* Calls of PgisIndexer.Exec, one after the other, on an indexer of up to
\* MaxClients clients that other goroutines use as well; no call of the
\* methods of PgisClient.
ExecInit ==
    /\ NewPgisClient
    /\ debug = FALSE
    /\ geometry = ""
    /\ pool = {}
    /\ calls = [w \in Workers |-> 0]
    /\ NoCall
    /\ InitCall
    /\ InitWorkers
    /\ InitBulk
    /\ NoStream
    /\ idxClients \in 0..MaxClients
    /\ InitExec

ExecSpec == ExecInit /\ [][ExecNext]_vars

\* ---------------------------------------------------------------- properties
\* The rows of the store that match, in both partitions.
AllMatched == {x \in Parts \X (0..MaxRows) : x[2] < N[x[1]]}
RowSet(r) == {r[j] : j \in 1..Len(r)}
Times(r, x) == Cardinality({j \in 1..Len(r) : r[j] = x})
CountFailed(p) == countVal[p] = -1
PageFailed == \E p \in Parts, o \in Offsets : pagePc[p][o] = "send_err"
NoPageTask == \A p \in Parts, o \in Offsets : pagePc[p][o] = "none"
CountingLeft == callerPc \notin {"start", "countloop", "Failed"}

\* C1: a call of IntersectsFeature that has returned has returned either a nil
\* error with every matching row of both partitions, once each (count_geom +
\* count_centroid rows), or a nil row list with an error that did occur; never a
\* nil error with fewer rows than match.
C1_CompleteOrError ==
    ret.returned =>
        \/ /\ ret.err = NIL
           /\ ~ret.rowsNil
           /\ RowSet(ret.rows) = AllMatched
           /\ Len(ret.rows) = N["geom"] + N["centroid"]
           /\ Len(ret.rows) = count["geom"] + count["centroid"]
        \/ /\ ret.err # NIL
           /\ ret.rowsNil
           /\ \/ ret.err = "missing_geometry" /\ ~hasGeom
              \/ \E p \in Parts : CountFailed(p) /\ ret.err = CountErr(p)
              \/ ret.err = "fetch_err" /\ \E p \in Parts : fetchCalls[p] > 0

\* C1 witness: the call returned an error after one partition's count of at least
\* one row had been received.
C1_Witness == ret.returned /\ ret.err # NIL /\ ret.rowsNil /\ count_total > 0

\* C2 (as claimed): once FetchIntersectsAsync has its connection and as long as
\* no page fetch has failed, the call has returned or some goroutine of the call
\* can still take a step.
C2_FetchingEnds ==
    (callerPc \in {"fetch_spawn", "fetch_wait", "fetch_defer"} /\ ~PageFailed)
        => (ret.returned \/ ENABLED CallNext)

\* C3 (as claimed): a page task's error does not stay unsent: when a page
\* goroutine holds an error for err_ch, either the call can still take a step or
\* IntersectsFeature has returned a fetch error with a nil row list.
C3_PageErrorReturned ==
    PageFailed =>
        \/ ENABLED CallNext
        \/ ret.returned /\ ret.err = "fetch_err" /\ ret.rowsNil

\* C4: once the count query of a partition has failed, no page task exists and
\* FetchIntersectsAsync has not been called; the caller is still in the count
\* loop with the error ready to be received, or it has returned a failed
\* partition's error with a nil row list.
C4_CountErrorFailsFast ==
    (\E p \in Parts : CountFailed(p)) =>
        /\ NoPageTask
        /\ \A p \in Parts : fetchCalls[p] = 0 /\ spawned[p] = 0
        /\ IF ret.returned
           THEN /\ callerPc = "Failed"
                /\ ret.rowsNil
                /\ \E p \in Parts : CountFailed(p) /\ ret.err = CountErr(p)
           ELSE callerPc = "countloop" /\ ErrSenders # {}

\* C4 witness: the call returned the geom count's error although the centroid
\* partition had reported rows to fetch.
C4_Witness ==
    /\ ret.returned
    /\ ret.err = "count_err_geom"
    /\ count["centroid"] > 0
    /\ NoPageTask

\* C5: when the count stage has ended with both counts 0, FetchIntersectsAsync
\* has not been called, no page task exists, and the call has returned an empty
\* non-nil row list with a nil error or is about to.
C5_ZeroTotal ==
    (CountingLeft /\ count["geom"] = 0 /\ count["centroid"] = 0) =>
        /\ NoPageTask
        /\ \A p \in Parts : fetchCalls[p] = 0
        /\ callerPc \in {"check_geom", "check_centroid", "fetchloop", "Done"}
        /\ IF ret.returned
           THEN ret = Return(<<>>, NIL) /\ callerPc = "Done"
           ELSE ENABLED (CheckGeom \/ CheckCentroid \/ FetchLoop)

\* C5 witness: the call returned with both counts 0.
C5_Witness ==
    /\ callerPc = "Done"
    /\ ret.returned
    /\ count_total = 0
    /\ N["geom"] = 0 /\ N["centroid"] = 0

\* C6 (as claimed): when the spawning loop of FetchIntersectsAsync has ended,
\* the number of page goroutines it started is ceil(N/P), the number of
\* completion signals the stage counts down.
C6_PagesEqualCeil ==
    callerPc \in {"fetch_wait", "fetch_defer"} =>
        /\ spawned[stage] = PageCount(count[stage], perPage)
        /\ spawned[stage] = iters

\* C7 (as claimed): when a fetch stage was entered for a partition, no page
\* fetch failed and the call can take no further step, every matching row of
\* the partition is in the result list exactly once.
C7_RowsDeliveredOnce ==
    \A p \in Parts :
        (fetchCalls[p] > 0 /\ ~PageFailed /\ ret.err = NIL /\ ~ENABLED CallNext) =>
            \A k \in 0..MaxRows : k < N[p] => Times(rows, <<p, k>>) = 1

\* C8 (as claimed): a goroutine that has finished CountIntersects, GetById or
\* IndexFeature, and a get_count goroutine whose CountIntersects has returned,
\* holds no permit.
C8_PermitGivenBack ==
    /\ \A w \in Workers : wPc[w] = "idle" => held[Worker(w)] = 0
    /\ \A p \in Parts :
          countPc[p] \in {"send_count", "send_err", "send_done", "done"}
              => held[CountTask(p)] = 0

\* C9: the permits taken and not given back are between 0 and maxconns, and so
\* are the permits in client.conns; together they are maxconns.
C9_BudgetBound ==
    /\ \A t \in Holders : held[t] >= 0
    /\ Outstanding >= 0
    /\ Outstanding <= maxconns
    /\ conns >= 0
    /\ conns <= maxconns
    /\ Outstanding + conns = maxconns

\* C9 witness: the budget is used up by a mix of a count goroutine, the fetch
\* stage and another method's goroutine, with a further goroutine waiting in
\* dbconn.
C9_Witness ==
    /\ conns = 0
    /\ held[CountTask("geom")] > 0
    /\ held[Caller] > 0
    /\ \E w \in Workers : wPc[w] = "dbconn"

\* C10 (as claimed): every goroutine holds at most one permit, and a goroutine
\* waiting in dbconn holds none.
AtDbconn(t) ==
    \/ t = Caller /\ callerPc = "fetch_dbconn"
    \/ \E p \in Parts : t = CountTask(p) /\ countPc[p] = "dbconn"
    \/ \E w \in Procs : t = Worker(w) /\ wPc[w] = "dbconn"
    \/ t = Pruner /\ prPc = "dbconn"
    \/ \E r \in PruneRows : t = RowTask(r) /\ rowPc[r] = "dbconn"

C10_OnePermitPerTask ==
    \A t \in Holders : held[t] <= 1 /\ (AtDbconn(t) => held[t] = 0)

\* ---------------------------------------------------------------- properties of the bulk pipelines
\* client.IndexFile has returned in the goroutine started for item k
IndexFileReturned(k) == wPc[TaskOf(k)] \in {"deferred", "deferred2", "done"}
TaskSpawned(k) == wPc[TaskOf(k)] # "none"
\* Item k is a file that decodes to a feature IndexFeature takes to its write.
WellFormed(k) ==
    /\ stream[k].kind = "file"
    /\ stream[k].decodes
    /\ IndexPrepare(stream[k].feature, geometry).status = "ok"
\* The stream itself can be read to its end.
StreamReadable ==
    /\ hasPath
    /\ bRet # "open_error"
    /\ \A k \in 1..Len(stream) : stream[k].kind # "read_err"

\* C11 (as claimed): when IndexMetaFile or IndexFileList has returned, with or
\* without an error, client.IndexFile has returned in every goroutine the
\* pipeline started.
C11_TasksDoneAtReturn ==
    (Spawning /\ bPc = "returned") =>
        \A k \in 1..MaxItems : TaskSpawned(k) => IndexFileReturned(k)

\* C12 (as claimed): in a bulk run over a readable stream with no store error,
\* an item that fails does not end the run, and when the run has returned every
\* well-formed item of the stream has its record in the store.
C12_ItemFailureIsolated ==
    (bulkOp # NIL /\ StreamReadable /\ exitBy # "os.Exit") =>
        /\ ~exited
        /\ bPc = "returned" =>
              \A k \in 1..Len(stream) :
                  WellFormed(k) => store[stream[k].feature.id].present

\* C13 (as claimed): after a store error on one item's upsert in a run of
\* IndexMetaFile or IndexFileList, when nothing can take a step any more the
\* pipeline has returned and client.IndexFile has returned in every goroutine
\* it started.
C13_StoreErrorIsolated ==
    (Spawning /\ exitBy = "os.Exit") =>
        \/ ENABLED BulkNext
        \/ /\ bPc = "returned"
           /\ \A k \in 1..MaxItems : TaskSpawned(k) => IndexFileReturned(k)

\* ---------------------------------------------------------------- properties of IndexFeature
\* The row a write of the feature ft is to leave in the table.
RecordOf(ft) ==
    [present |-> TRUE, props |-> ft.props,
     geom |-> IndexPrepare(ft, geometry).geom,
     centroid |-> IndexPrepare(ft, geometry).centroid]
\* The goroutine w has just come back from a db.Exec that succeeded.
Wrote(w) == wPc[w] = "exec" /\ wPc'[w] = "idle" /\ ~exited'
\* The one feature IndexFeature is called with, when there is only one.
OneFeature == Cardinality(pool) = 1
TheFeature == CHOOSE ft \in pool : TRUE
Polygonal(ft) == ft.geom_type \in {"Polygon", "MultiPolygon"}
EmptyStore == \A id \in Ids : store[id] = NoRecord
Called(w) == wPc[w] = "idle" /\ opsDone[w] > 0

\* C14 (as claimed): after every write of IndexFeature the row of the
\* feature's id carries the values of that write in all its columns: the seven
\* argument columns, geom and centroid.
C14_LastWriteWins ==
    [][\A w \in Workers : Wrote(w) => store'[wItem[w].id] = RecordOf(wItem[w])]_vars

C16_DryRun ==
    /\ debug =>
          /\ conns = maxconns
          /\ \A t \in Holders : held[t] = 0
          /\ \A w \in Workers : wPc[w] = "idle"
          /\ EmptyStore
    /\ OneFeature =>
          \A w \in Workers :
              Called(w) =>
                  wRes[w] = IF IndexPrepare(TheFeature, geometry).status = "error"
                            THEN "error" ELSE NIL

\* C16 witness: under Debug a call on a feature that a real run writes has
\* returned nil.
C16_Witness ==
    /\ debug
    /\ OneFeature
    /\ IndexPrepare(TheFeature, geometry).status = "ok"
    /\ Called(1)
    /\ wRes[1] = NIL
    /\ EmptyStore

\* ---------------------------------------------------------------- properties of the count stage and the budget
\* C17 (as claimed): on a client with maxconns >= 2, when the call of
\* IntersectsFeature has returned and its count goroutines have ended, a
\* goroutine that then calls CountIntersects or GetById finds a permit in
\* client.conns.
C17_NotStarved ==
    (/\ maxconns >= 2
     /\ callerPc = "Done"
     /\ \A p \in Parts : countPc[p] = "done"
     /\ \E w \in Workers : wPc[w] = "dbconn" /\ opsDone[w] = 0
     /\ \A w \in Workers : wPc[w] \in {"idle", "dbconn"}) => conns > 0

\* C18 (as claimed): after IntersectsFeature has returned a count error, when
\* nothing can take a step any more both count goroutines have ended.
C18_CountTasksEnd ==
    (ret.returned /\ (\E p \in Parts : CountFailed(p)) /\ ~ENABLED CallNext) =>
        \A p \in Parts : countPc[p] = "done"

\* C19 (as claimed): when nothing can take a step any more, every page
\* goroutine that was started has ended, its worker slot given back.
C19_PageTasksEnd ==
    ~ENABLED CallNext =>
        \A p \in Parts, o \in Offsets : pagePc[p][o] \in {"none", "done"}

\* C20: once the count loop has ended without an error, both counts have been
\* received (each is the count of its partition), both count goroutines have
\* ended, and count_total is count_geom + count_centroid.
C20_CountsComplete ==
    CountingLeft =>
        /\ \A p \in Parts : count[p] = N[p] /\ countVal[p] = N[p] /\ countPc[p] = "done"
        /\ count_total = count["geom"] + count["centroid"]
        /\ n = 0

\* C20 witness: the count stage has ended with rows counted in both partitions.
C20_Witness ==
    /\ callerPc = "check_geom"
    /\ count["geom"] > 0
    /\ count["centroid"] > 0
    /\ count_total = N["geom"] + N["centroid"]

\* ---------------------------------------------------------------- properties of the fetch stages
\* The partitions the count stage reported rows for.
NonEmpty == {p \in Parts : count[p] > 0}
\* The caller is past the `if count > 0` of partition p.
Decided(p) ==
    /\ CountingLeft
    /\ callerPc # "check_geom"
    /\ p = "centroid" => (callerPc # "check_centroid" /\ stage # "geom")

InFlight(p) ==
    Cardinality({o \in Offsets :
        pagePc[p][o] \in {"query", "next", "send_row", "send_err", "sig", "put_throttle"}})
\* throttle_ch of the call for partition p has been made and pre-loaded.
Throttled(p) == spawned[p] > 0 \/ (stage = p /\ callerPc # "fetch_dbconn")

\* C22: of the page goroutines of one call of FetchIntersectsAsync at most
\* NumProcesses are between taking a value from throttle_ch and giving it
\* back, and each of them holds one of the NumProcesses values: a goroutine is
\* at its query only with a value taken.
C22_PageSlots ==
    \A p \in Parts :
        /\ InFlight(p) <= numProcs
        /\ throttle[p] >= 0
        /\ throttle[p] <= numProcs
        /\ Throttled(p) => InFlight(p) + throttle[p] = numProcs
        /\ ~Throttled(p) => InFlight(p) = 0

\* C22 witness: with NumProcesses = 2, two page goroutines are at work and a
\* third waits for a value in throttle_ch.
C22_Witness ==
    /\ numProcs = 2
    /\ InFlight("geom") = 2
    /\ throttle["geom"] = 0
    /\ \E o \in Offsets : pagePc["geom"][o] = "throttle"

\* ---------------------------------------------------------------- properties of the pipelines' worker permits
\* The goroutine of item k is between the pipeline's <-ch for it and its own
\* ch <- true.
HoldsSlot(k) ==
    \/ wPc[TaskOf(k)] \in {"indexfile", "dbconn", "exec", "deferred"}
    \/ bulkOp = "IndexMetaFile" /\ wPc[TaskOf(k)] = "deferred2"
TasksInFlight == Cardinality({k \in 1..MaxItems : HoldsSlot(k)})

\* C23: in a run of IndexMetaFile or IndexFileList, ch never holds more than
\* GOMAXPROCS values, at most GOMAXPROCS goroutines are in flight, and the
\* goroutines in flight and the values in ch are together the values the
\* pre-loading goroutine has put in: a goroutine is started only with a value
\* taken and gives it back once.
C23_WorkerPermits ==
    Spawning =>
        /\ bCh >= 0
        /\ bCh <= HostProcs
        /\ bPre <= HostProcs
        /\ TasksInFlight <= HostProcs
        /\ TasksInFlight + bCh = bPre

\* C23 witness: every permit is out, and the pipeline waits in <-ch with the
\* next item read while a goroutine is about to give its permit back.
C23_Witness ==
    /\ Spawning
    /\ bPc = "take_slot"
    /\ bPre = HostProcs
    /\ bCh = 0
    /\ TasksInFlight = HostProcs
    /\ \E k \in 1..MaxItems : wPc[TaskOf(k)] = "deferred"

\* ---------------------------------------------------------------- properties of the pipelines' tallies
\* The items client.IndexFile was called for and has returned for, and those
\* of them it returned an error for.
ItemsProcessed == {k \in 1..MaxItems : opsDone[TaskOf(k)] > 0}
ItemsFailed == {k \in ItemsProcessed : wRes[TaskOf(k)] = "error"}

\* C24 (as claimed): when a bulk run has returned nil, its counts of succeeded
\* and failed items add up to the items processed, and the failed count is the
\* number of items whose client.IndexFile returned an error.
C24_FailuresCounted ==
    (bulkOp # NIL /\ bPc = "returned" /\ bRet = NIL) =>
        /\ bStats.ok + bStats.errs = Cardinality(ItemsProcessed)
        /\ bStats.errs = Cardinality(ItemsFailed)

\* ---------------------------------------------------------------- properties of the call's options
\* C25 (as claimed): a call that is in a fetch stage has a PerPage above 0, and
\* the spawning loop moves its offset on with every goroutine it starts, so
\* that it starts at most one goroutine for each offset 0..count_expected.
C25_PageSizePositive ==
    stage # NIL =>
        /\ perPage > 0
        /\ spawned[stage] > 0 => offset > 0
        /\ spawned[stage] <= count[stage] + 1

\* ---------------------------------------------------------------- properties of IndexFeature's checks
\* The feature gets past the geometry dispatch and lacks a field the checks
\* after it require: float64 coordinates to make a centroid of, a known
\* placetype, a non-empty wof:repo.
PastDispatch(ft, mode) ==
    /\ ft.id # 0
    /\ ~ShapeError(ft, mode)
    /\ mode = "bbox" => ft.bbox
NoCentroid(ft, mode) ==
    /\ ~(mode = "" /\ ft.geom_type = "Point")
    /\ ~ft.lbl
    /\ ~ft.geomll
MissingField(ft, mode) ==
    /\ PastDispatch(ft, mode)
    /\ NoCentroid(ft, mode) \/ ~ft.placetype_ok \/ ft.repo \in {"absent", "empty"}

\* C26: calls of IndexFeature on a feature with a missing required field each
\* return an error and nothing else: the process goes on, no call gets to
\* client.dbconn(), no permit is taken, and the table stays as it was.
C26_MissingFieldFails ==
    (OneFeature /\ MissingField(TheFeature, geometry)) =>
        /\ ~exited
        /\ EmptyStore
        /\ conns = maxconns
        /\ \A t \in Holders : held[t] = 0
        /\ \A w \in Workers : wPc[w] = "idle"
        /\ \A w \in Workers : Called(w) => wRes[w] = "error"

\* C26 witness: with Debug off, every call on a feature whose wof:repo is empty
\* has returned an error.
C26_Witness ==
    /\ ~debug
    /\ OneFeature
    /\ TheFeature.repo = "empty"
    /\ MissingField(TheFeature, geometry)
    /\ opsDone[1] = MaxOps
    /\ wRes[1] = "error"
    /\ EmptyStore
    /\ conns = maxconns

\* The goroutine w is in IndexFeature between client.dbconn() and db.Exec: at
\* the selection of its statement.
AtStatement(w) == wPc[w] \in {"dbconn", "exec"} /\ wOp[w] = "IndexFeature"
\* The statement IndexFeature selects for the feature of w.
StatementOf(w) ==
    Statement(IndexPrepare(wItem[w], geometry).geom,
              IndexPrepare(wItem[w], geometry).centroid)

\* C27: in every geometry mode, when IndexFeature is at the selection of its
\* statement str_centroid is not empty, so the statement is the one for both
\* or the one for the centroid only, never the empty sql.
C27_CentroidAtStatement ==
    \A w \in Workers :
        AtStatement(w) =>
            /\ IndexPrepare(wItem[w], geometry).centroid # ""
            /\ StatementOf(w) \in {"both", "centroid_only"}
            /\ Executable(StatementOf(w))

\* C27 witness: in centroid mode a Polygon is at db.Exec with the statement for
\* the centroid only, its centroid made of the geom: pair.
C27_Witness ==
    /\ geometry = "centroid"
    /\ wPc[1] = "exec"
    /\ wItem[1].geom_type = "Polygon"
    /\ ~wItem[1].lbl
    /\ StatementOf(1) = "centroid_only"
    /\ IndexPrepare(wItem[1], geometry).centroid = "geom"

\* ---------------------------------------------------------------- properties of the pipelines' items
\* The pipeline has read item k and is past the go statement for it.
ItemTaken(k) == k < bNext \/ (k = bNext /\ bPc # "take_slot")

\* C28: in a run of IndexMetaFile or IndexFileList, a goroutine is started for
\* an item the pipeline has read and for no other, each with the path of its
\* own item, so that no two goroutines have the same item; each calls
\* client.IndexFile once at most; and when the run has read a readable stream
\* to its end and returned nil, every item has had its one call of
\* client.IndexFile.
C28_ItemsOnce ==
    Spawning =>
        /\ bNext <= Len(stream)
        /\ \A k \in 1..MaxItems :
              /\ TaskSpawned(k) <=> (k >= 1 /\ ItemTaken(k))
              /\ TaskSpawned(k) => bPath[k] = k
              /\ opsDone[TaskOf(k)] <= 1
        /\ (bPc = "returned" /\ bRet = NIL /\ StreamReadable) =>
              /\ bNext = Len(stream)
              /\ \A k \in 1..Len(stream) : opsDone[TaskOf(k)] = 1

\* C28 witness: a run over two items has returned nil, each item indexed by the
\* goroutine started for it.
C28_Witness ==
    /\ Spawning
    /\ Len(stream) = 2
    /\ bPc = "returned"
    /\ bRet = NIL
    /\ \A k \in 1..2 : bPath[k] = k /\ opsDone[TaskOf(k)] = 1
    /\ store[1].present
    /\ store[2].present

\* ---------------------------------------------------------------- properties of the shared channels
\* The goroutines with a send on err_ch or done_ch pending.
Signalling == ErrSenders \cup DoneSenders
\* The caller is in the count stage; it is in or before a fetch stage or the
\* fetch loop.
InCountStage == callerPc \in {"start", "countloop"}
InFetchStages ==
    callerPc \in {"check_geom", "check_centroid", "fetch_dbconn", "fetch_spawn",
                  "fetch_wait", "fetch_defer", "fetchloop"}

\* C29: err_ch and done_ch carry the signals of one stage at a time. While the
\* caller counts, only get_count goroutines have a send pending; once the
\* count loop has ended without error both get_count goroutines have ended, so
\* that from then on every pending send on err_ch or done_ch, and with it every
\* signal the fetch loop can receive, is one of a fetch stage.
C29_SignalsStayInStage ==
    /\ InCountStage => \A s \in Signalling : s[1] = "count"
    /\ InFetchStages =>
          /\ \A p \in Parts : countPc[p] = "done"
          /\ \A s \in Signalling : s[1] \in {"page", "caller"}

\* C29 witness: a fetch stage is at its deferred done_ch <- true while a page
\* goroutine has an error for err_ch, and both count goroutines have ended.
C29_Witness ==
    /\ callerPc = "fetch_defer"
    /\ DoneSenders = {<<"caller", stage, 0>>}
    /\ \E s \in ErrSenders : s[1] = "page"
    /\ \A p \in Parts : countPc[p] = "done"


\* ---------------------------------------------------------------- properties of Prune's termination
\* no other goroutine has used the client: every permit taken is Prune's own
\* or one of its row goroutines'
PruneAlone == \A w \in Workers : wPc[w] = "idle" /\ opsDone[w] = 0

\* C30 (as claimed): for every maxconns >= 1 and either value of delete, a
\* call of Prune on a client nobody else uses has returned when nothing of it
\* can take a step any more: no row goroutine is left waiting for a permit
\* and wg.Wait() of every page has returned.
C30_PruneReturns ==
    (maxconns >= 1 /\ prPc # "idle" /\ PruneAlone /\ ~ENABLED PruneNext) =>
        /\ prPc = "returned"
        /\ \A r \in PruneRows : rowPc[r] # "dbconn"


\* ---------------------------------------------------------------- properties of the feature of id 0
\* C31: calls of IndexFeature on a feature whose id is 0 each return nil and
\* nothing else, whatever its geometry and other fields and whatever
\* client.Geometry and client.Debug are: the process goes on, no call gets to
\* client.dbconn() or to db.Exec, no permit is taken, and the table stays as it
\* was.
C31_EarthSkipped ==
    (OneFeature /\ TheFeature.id = 0) =>
        /\ ~exited
        /\ EmptyStore
        /\ conns = maxconns
        /\ \A t \in Holders : held[t] = 0
        /\ \A w \in Workers : wPc[w] = "idle" /\ wOp[w] = NIL
        /\ \A w \in Workers : Called(w) => wRes[w] = NIL

\* C31 witness: with Debug off and client.Geometry "bbox", every call on a
\* feature of id 0 that has no bbox, no known placetype and no wof:repo has
\* returned nil.
C31_Witness ==
    /\ ~debug
    /\ geometry = "bbox"
    /\ OneFeature
    /\ TheFeature.id = 0
    /\ ~TheFeature.bbox
    /\ ~TheFeature.placetype_ok
    /\ TheFeature.repo = "absent"
    /\ opsDone[1] = MaxOps
    /\ wRes[1] = NIL
    /\ EmptyStore
    /\ conns = maxconns


\* ---------------------------------------------------------------- properties of PgisIndexer.Exec
\* the clients of the indexer, and those whose goroutine has not yet been
\* received from on done_ch
ExecClients == 1..idxClients
Unsignalled == {c \in ExecClients : taskPc[c] # "done"}

\* C32: Exec starts one goroutine for each client of the indexer and returns
\* nil only after it has received on done_ch from every one of them, each
\* having had its db.Exec return; pending is the number of goroutines not yet
\* received from. A goroutine holds at most one permit, of its own client's
\* conns, between its dbconn and its deferred client.conns <- true, and none
\* once it signals. On an indexer with no clients Exec starts no goroutine and
\* goes to its return nil without waiting.
C32_ExecFansOut ==
    /\ \A c \in Clients :
          /\ taskHeld[c] \in 0..1
          /\ taskHeld[c] = 1 <=> taskPc[c] \in {"exec", "put_conn"}
          /\ cConns[c] + cOther[c] + taskHeld[c] = maxconns
          /\ c > idxClients => taskPc[c] = "none"
    /\ execPc = "wait" => pending = Cardinality(Unsignalled)
    /\ execRet # "none" => execPc = "returned"
    /\ execPc = "returned" =>
          /\ execRet = NIL
          /\ Unsignalled = {}
          /\ \A c \in ExecClients : taskRan[c] /\ taskHeld[c] = 0
    /\ (idxClients = 0 /\ execPc \in {"spawn", "wait"} /\ ~exited) =>
          /\ pending = 0
          /\ ENABLED (ExecSpawnEnd \/ ExecReturn)

\* C32 witness: the second call of Exec on an indexer of two clients has
\* returned nil, both goroutines having signalled and given their permit back,
\* while another goroutine holds a permit of the first client.
C32_Witness ==
    /\ ~exited
    /\ idxClients = 2
    /\ execCalls = 2
    /\ execPc = "returned"
    /\ execRet = NIL
    /\ \A c \in ExecClients : taskPc[c] = "done" /\ taskRan[c] /\ taskHeld[c] = 0
    /\ cOther[1] = 1
    /\ cConns[2] = maxconns

====
